---- MODULE Spec2Model ----
(***************************************************************************)
(* Model of the OR-SST extraction core: the span aggregator                *)
(* (SlotFillingExtractor._merge_subword_tokens), the entity decoder with   *)
(* its rule-based overrides (decode_entities_to_json), the extract entry   *)
(* point and the token-tag aligner of the interactive tester.              *)
(*                                                                         *)
(* Texts are sequences of one-character strings; offsets are 0-based as in *)
(* Python, so text[a:b] is PySlice(text, a, b).                            *)
(***************************************************************************)
EXTENDS Integers, Sequences, FiniteSets, TLC

\* ------------------------------------------------------------------ bounds
\* Longest prediction list handed to the aggregator.
MaxPreds == 3

\* ------------------------------------------------------------ Python values
\* dict.get(key) of an absent key.
NoneVal == "None"
\* An absent 'word' key (a pseudo-character no text contains).
MissingWord == <<"<absent>">>

Min2(a, b) == IF a <= b THEN a ELSE b
Max2(a, b) == IF a >= b THEN a ELSE b

\* text[a:b] for offsets a, b >= 0.
PySlice(t, a, b) ==
    IF a >= b \/ a >= Len(t) THEN <<>> ELSE SubSeq(t, a + 1, Min2(b, Len(t)))

\* s.startswith(p)
StartsWith(s, p) == Len(s) >= Len(p) /\ SubSeq(s, 1, Len(p)) = p

Marker == <<"#", "#">>

\* s.replace(old, ''): every non-overlapping occurrence, left to right.
RECURSIVE RemoveAll(_, _)
RemoveAll(s, old) ==
    IF s = <<>> THEN <<>>
    ELSE IF StartsWith(s, old) THEN RemoveAll(SubSeq(s, Len(old) + 1, Len(s)), old)
    ELSE <<Head(s)>> \o RemoveAll(Tail(s), old)

\* ------------------------------------------------- aggregator: input domain
\* The transcript the predictions point into: "ab   ##c  d".
AggText == <<"a", "b", " ", " ", " ", "#", "#", "c", " ", " ", "d">>

\* Character spans [start, end) a prediction may carry.
AggSpans == {<<0, 1>>, <<1, 2>>, <<5, 6>>, <<6, 8>>, <<10, 11>>}
\* Spans whose fragment the tokenizer may emit as a '##' continuation piece
\* ('##b', and '####c' whose own text holds the marker).
ContSpans == {<<1, 2>>, <<5, 8>>}
\* Spans whose prediction may lack the 'word' key.
AbsentSpans == {<<0, 1>>}

AggLabels == {"DATE", "DRUG"}
\* The pipeline names the label key 'entity' without aggregation and
\* 'entity_group' with an aggregation strategy.
LabelKeys == {"entity", "entity_group"}

\* Scores are held in units of 2^-(MaxPreds+1), so every mean the aggregator
\* takes is exact.
ScoreUnit == 2 ^ (MaxPreds + 1)
\* The confidence the model gives the fragment at a span: two levels.
LowScoreSpans == {<<0, 1>>, <<5, 8>>, <<10, 11>>}
ScoreOf(span) == IF span \in LowScoreSpans THEN ScoreUnit ELSE 2 * ScoreUnit

Entity(key, label, word, span) ==
    [entity       |-> IF key = "entity" THEN label ELSE NoneVal,
     entity_group |-> IF key = "entity_group" THEN label ELSE NoneVal,
     word         |-> word,
     start        |-> span[1],
     end          |-> span[2],
     score        |-> ScoreOf(span)]

\* What the token-classification pipeline may emit under one label key.
AggPool(key) ==
    {Entity(key, l, PySlice(AggText, sp[1], sp[2]), sp) : l \in AggLabels, sp \in AggSpans}
    \cup {Entity(key, l, Marker \o PySlice(AggText, sp[1], sp[2]), sp) :
            l \in AggLabels, sp \in ContSpans}
    \cup {Entity(key, l, MissingWord, sp) : l \in AggLabels, sp \in AbsentSpans}

\* ------------------------------------------ aggregator: the loop body's parts
\* word = entity.get('word', '')
WordGet(entity) == IF entity.word = MissingWord THEN <<>> ELSE entity.word

\* is_subword = word.startswith('##')
IsSubword(entity) == StartsWith(WordGet(entity), Marker)

\* A dict is truthy when it is not None and has a key; every buffer is a copy
\* of an entity, which carries start, end and score.
Truthy(buf) == buf # <<>>

\* same_entity: either key's .get() values are equal (None == None included).
SameEntity(b, entity) ==
    \/ b.entity = entity.entity
    \/ b.entity_group = entity.entity_group

AdjacentGap == 2

\* Mutant: the threshold one character wider.
IsAdjacent_Wider(b, entity) == entity.start - b.end <= AdjacentGap + 1

\* Mutant: the gap measured to the prediction's end instead of its start.
IsAdjacent_ToEnd(b, entity) == entity.end - b.end <= AdjacentGap

\* is_adjacent = (entity['start'] - buffer['end']) <= 2
IsAdjacent(b, entity) == entity.start - b.end <= AdjacentGap

\* Mutant: the continuation merge averaging the scores as the adjacent merge does.
MergeSubwordInto_MeanScore(b, entity) ==
    [b EXCEPT !.word  = b.word \o RemoveAll(WordGet(entity), Marker),
              !.end   = entity.end,
              !.score = (b.score + entity.score) \div 2]

\* buffer['word'] += word.replace('##', ''); end; score = max(...)
MergeSubwordInto(b, entity) ==
    [b EXCEPT !.word  = b.word \o RemoveAll(WordGet(entity), Marker),
              !.end   = entity.end,
              !.score = Max2(b.score, entity.score)]

\* Mutant: the adjacent merge leaving out the text between the two fragments.
MergeAdjacentInto_NoGapText(b, entity, t) ==
    [b EXCEPT !.word  = b.word \o entity.word,
              !.end   = entity.end,
              !.score = (b.score + entity.score) \div 2]

\* buffer['word'] += text[buffer['end']:entity['start']] + entity['word']; ...
MergeAdjacentInto(b, entity, t) ==
    [b EXCEPT !.word  = b.word \o PySlice(t, b.end, entity.start) \o entity.word,
              !.end   = entity.end,
              !.score = (b.score + entity.score) \div 2]

\* buffer['word'] and entity['word'] raise KeyError on an absent key.
SubwordRaises(b, entity) == b.word = MissingWord
AdjacentRaises(b, entity) == b.word = MissingWord \/ entity.word = MissingWord

\* One pass of the loop body over loop state st = [merged, buffer, raised];
\* buffer is <<>> for None and <<b>> for a dict b.
LoopBody(st, entity, t) ==
    LET b == st.buffer[1] IN
    IF st.raised THEN st
    ELSE IF IsSubword(entity) /\ Truthy(st.buffer) THEN
        IF SubwordRaises(b, entity) THEN [st EXCEPT !.raised = TRUE]
        ELSE [st EXCEPT !.buffer = <<MergeSubwordInto(b, entity)>>]
    ELSE IF ~IsSubword(entity) /\ Truthy(st.buffer) THEN
        IF SameEntity(b, entity) /\ IsAdjacent(b, entity) THEN
            IF AdjacentRaises(b, entity) THEN [st EXCEPT !.raised = TRUE]
            ELSE [st EXCEPT !.buffer = <<MergeAdjacentInto(b, entity, t)>>]
        ELSE [st EXCEPT !.merged = Append(st.merged, b), !.buffer = <<entity>>]
    ELSE [st EXCEPT !.merged = IF Truthy(st.buffer) THEN Append(st.merged, b)
                               ELSE st.merged,
                    !.buffer = <<entity>>]

\* The trailing "if buffer: merged.append(buffer)".
FlushBuffer(st) ==
    IF Truthy(st.buffer) THEN Append(st.merged, st.buffer[1]) ELSE st.merged

RECURSIVE LoopFrom(_, _, _)
LoopFrom(st, ents, t) ==
    IF ents = <<>> THEN st ELSE LoopFrom(LoopBody(st, Head(ents), t), Tail(ents), t)

\* _merge_subword_tokens(entities, text) as a function: the spans returned,
\* or raised = TRUE when the call raises.
MergeSubwordTokens(ents, t) ==
    IF ents = <<>> THEN [raised |-> FALSE, spans |-> <<>>]
    ELSE LET st == LoopFrom([merged |-> <<>>, buffer |-> <<>>, raised |-> FALSE], ents, t)
         IN  IF st.raised THEN [raised |-> TRUE, spans |-> <<>>]
             ELSE [raised |-> FALSE, spans |-> FlushBuffer(st)]

\* ------------------------------------------------------ aggregator: state
VARIABLES
    labelKey,   \* the label key the pipeline run uses
    entities,   \* the prediction list, as far as the loop has consumed it
    merged,     \* the output list under construction
    buffer,     \* the open buffer: <<>> or <<span>>
    aggPc,      \* "start", "loop", "done" (returned) or "raised"
    \* one extract call
    transcript,     \* the transcript handed to extract
    available,      \* is_available(): the model loaded at construction
    rawEntities,    \* None, or Some(the list the pipeline returned)
    mergedEntities, \* the list _merge_subword_tokens returned
    result,         \* the dict extract returned
    exPc,           \* "start", "piped" (the pipeline returned) or "returned"
    \* one _align_predictions_to_tokens call
    tokens,         \* the whitespace tokens
    tags,           \* the tag of every token
    prediction,     \* None, or Some(the raw prediction the outer loop is at)
    predCount,      \* how many raw predictions the outer loop has reached
    tokenIdx,       \* the token the inner loop looks at next (0-based)
    alPc,           \* "start", "tokens" (inside a prediction), "next", "returned"
    \* one test_and_correct run of the interactive tester
    wfTranscript,   \* the transcript under test
    wfTokens,       \* tokenize_text(transcript)
    predictedTags,  \* what the aligner returned
    correctedTags,  \* the list collect_corrections edits
    availableTags,  \* what _load_available_tags returned
    commands,       \* how many inputs collect_corrections has read
    correctionsFile, \* the lines of the corrections file
    wfPc,           \* "start", "correcting", "collected", "returned"
    \* direct calls of the three savers
    svCorrections,  \* the lines of the corrections file
    svLabels,       \* the lines of the labels file
    svCall,         \* the last call: who was called with which tokens and tags
    svResult,       \* what the last call returned
    \* one validate_corrections call
    vlRecords,      \* the records loaded from the corrections file, as far as visited
    vlValidLabels,  \* valid_labels
    vlIssues,       \* stats['issues']
    vlValid,        \* stats['valid_records']
    vlPc,           \* "start", "loop", "returned"
    \* the NER factory
    registry,       \* NERFactory._registry
    fcCall,         \* the last call of register or create
    fcResult,       \* what it returned or raised
    \* two extraction calls running concurrently over shared objects
    sharedInputs,   \* the prediction dicts both calls were handed
    givenInputs,    \* the prediction dicts as they were when handed over
    sharedDefaults, \* the nested dicts an ORFormJSON field default holds
    ccTranscript,   \* the transcript both calls were handed
    ccCalls,        \* per call: its position and its local objects
    \* one decode_entities_to_json call
    dcEntities,     \* the spans handed to the decoder
    dcTranscript,   \* the transcript handed to the decoder
    dcResult,       \* None, or Some(the record returned)
    \* the rule-based extractors applied to one transcript
    ruText,         \* the transcript
    ruResult,       \* None, or Some([surgeons, in, out]) as returned
    \* the training endpoints and the background training threads
    trStatus,       \* _training_status
    trLogs,         \* _training_logs
    trProcess,      \* _training_process: None or Some(subprocess id)
    trProcs,        \* per training subprocess: running, or how it ended
    trStarted,      \* how many training subprocesses were started
    trThreads,      \* per background thread: its position
    trReqs,         \* per request: its position and its response
    \* one collect_corrections call
    clTokens,       \* tokens
    clPredicted,    \* the list object passed as predicted_tags
    clGiven,        \* that list as it was when passed
    clCorrected,    \* corrected_tags: its own list, or the predicted list itself
    clAvailable,    \* available_tags
    clTyped,        \* the inputs read so far
    clResult,       \* None, or Some(the list returned)
    \* one merge_corrections call
    mgTrain,        \* train.jsonl: None, or Some(its lines)
    mgCorrections,  \* the corrections file: None, or Some(its lines)
    mgMerged,       \* the records of merged the deduplication has yet to visit
    mgSeen,         \* seen
    mgKept,         \* deduplicated
    mgOutput,       \* None, or Some(the records written to the output file)
    mgPc            \* "start", "dedup", "save", or the value returned

aggVars == <<labelKey, entities, merged, buffer, aggPc>>
exVars == <<transcript, available, rawEntities, mergedEntities, result, exPc>>
alVars == <<tokens, tags, prediction, predCount, tokenIdx, alPc>>
wfVars == <<wfTranscript, wfTokens, predictedTags, correctedTags, availableTags, commands,
            correctionsFile, wfPc>>
svVars == <<svCorrections, svLabels, svCall, svResult>>
vlVars == <<vlRecords, vlValidLabels, vlIssues, vlValid, vlPc>>
fcVars == <<registry, fcCall, fcResult>>
ccVars == <<sharedInputs, givenInputs, sharedDefaults, ccTranscript, ccCalls>>
dcVars == <<dcEntities, dcTranscript, dcResult>>
ruVars == <<ruText, ruResult>>
trVars == <<trStatus, trLogs, trProcess, trProcs, trStarted, trThreads, trReqs>>
clVars == <<clTokens, clPredicted, clGiven, clCorrected, clAvailable, clTyped, clResult>>
mgVars == <<mgTrain, mgCorrections, mgMerged, mgSeen, mgKept, mgOutput, mgPc>>
lastVars == <<dcVars, ruVars, trVars, clVars, mgVars>>
laterVars == <<wfVars, svVars, vlVars, fcVars, ccVars, lastVars>>

\* No decoder call is running.
DecodeIdle == dcEntities = <<>> /\ dcTranscript = <<>> /\ dcResult = <<"idle">>

\* No rule is being applied.
RulesIdle == ruText = <<>> /\ ruResult = <<"idle">>

\* The training endpoints are not in use.
TrainingIdle ==
    /\ trStatus = "idle"
    /\ trLogs = <<>>
    /\ trProcess = <<>>
    /\ trProcs = <<>>
    /\ trStarted = 0
    /\ trThreads = <<>>
    /\ trReqs = <<>>

\* No collect_corrections call is running.
CollectIdle ==
    /\ clTokens = <<>>
    /\ clPredicted = <<>>
    /\ clGiven = <<>>
    /\ clCorrected = <<>>
    /\ clAvailable = <<>>
    /\ clTyped = <<>>
    /\ clResult = <<"idle">>

\* No merge is running.
MergeIdle ==
    /\ mgTrain = <<>>
    /\ mgCorrections = <<>>
    /\ mgMerged = <<>>
    /\ mgSeen = {}
    /\ mgKept = <<>>
    /\ mgOutput = <<>>
    /\ mgPc = "idle"

LastIdle == DecodeIdle /\ RulesIdle /\ TrainingIdle /\ CollectIdle /\ MergeIdle

\* No interactive run is in progress.
WorkflowIdle ==
    /\ wfTranscript = <<>>
    /\ wfTokens = <<>>
    /\ predictedTags = <<>>
    /\ correctedTags = <<>>
    /\ availableTags = <<>>
    /\ commands = 0
    /\ correctionsFile = <<>>
    /\ wfPc = "idle"

\* No saver is being called.
SaversIdle ==
    /\ svCorrections = <<>>
    /\ svLabels = <<>>
    /\ svCall = <<>>
    /\ svResult = <<>>

\* No validation is running.
ValidateIdle ==
    /\ vlRecords = <<>>
    /\ vlValidLabels = {}
    /\ vlIssues = <<>>
    /\ vlValid = 0
    /\ vlPc = "idle"

\* The factory is not in use.
FactoryIdle ==
    /\ registry = <<>>
    /\ fcCall = <<>>
    /\ fcResult = <<>>

\* No concurrent calls are running.
ConcurrentIdle ==
    /\ sharedInputs = <<>>
    /\ givenInputs = <<>>
    /\ sharedDefaults = <<>>
    /\ ccTranscript = <<>>
    /\ ccCalls = <<>>

LaterIdle ==
    WorkflowIdle /\ SaversIdle /\ ValidateIdle /\ FactoryIdle /\ ConcurrentIdle /\ LastIdle

\* No extract call is running.
ExtractIdle ==
    /\ transcript = <<>>
    /\ available = FALSE
    /\ rawEntities = <<>>
    /\ mergedEntities = <<>>
    /\ result = <<>>
    /\ exPc = "idle"

\* No aligner call is running.
AlignIdle ==
    /\ tokens = <<>>
    /\ tags = <<>>
    /\ prediction = <<>>
    /\ predCount = 0
    /\ tokenIdx = 0
    /\ alPc = "idle"

\* No aggregator call is being followed step by step.
AggIdle ==
    /\ labelKey = "entity_group"
    /\ entities = <<>>
    /\ merged = <<>>
    /\ buffer = <<>>
    /\ aggPc = "idle"

AggInit ==
    /\ labelKey \in LabelKeys
    /\ entities = <<>>
    /\ merged = <<>>
    /\ buffer = <<>>
    /\ aggPc = "start"
    /\ ExtractIdle
    /\ AlignIdle
    /\ LaterIdle

AggState == [merged |-> merged, buffer |-> buffer, raised |-> FALSE]

\* The loop consumes entity as the next element of the list.
Consume(entity) ==
    LET st == LoopBody(AggState, entity, AggText) IN
    /\ aggPc \in {"start", "loop"}
    /\ Len(entities) < MaxPreds
    /\ entities' = Append(entities, entity)
    /\ merged' = st.merged
    /\ buffer' = st.buffer
    /\ aggPc' = IF st.raised THEN "raised" ELSE "loop"
    /\ UNCHANGED <<labelKey, exVars, alVars, laterVars>>

\* if not entities: return []
MergeEmptyInput ==
    /\ aggPc = "start"
    /\ aggPc' = "done"
    /\ UNCHANGED <<labelKey, entities, merged, buffer, exVars, alVars, laterVars>>

\* if is_subword and buffer: (lines 109-114)
MergeSubword ==
    \E entity \in AggPool(labelKey) :
        /\ IsSubword(entity) /\ Truthy(buffer)
        /\ ~SubwordRaises(buffer[1], entity)
        /\ Consume(entity)

\* elif not is_subword and buffer: if same_entity and is_adjacent: (lines 115-128)
MergeAdjacent ==
    \E entity \in AggPool(labelKey) :
        /\ ~IsSubword(entity) /\ Truthy(buffer)
        /\ SameEntity(buffer[1], entity) /\ IsAdjacent(buffer[1], entity)
        /\ ~AdjacentRaises(buffer[1], entity)
        /\ Consume(entity)

\* ... else: merged.append(buffer); buffer = entity.copy() (lines 129-132)
CloseAndOpen ==
    \E entity \in AggPool(labelKey) :
        /\ ~IsSubword(entity) /\ Truthy(buffer)
        /\ ~(SameEntity(buffer[1], entity) /\ IsAdjacent(buffer[1], entity))
        /\ Consume(entity)

\* else: buffer = entity.copy() with no buffer open (lines 133-138)
OpenBuffer ==
    \E entity \in AggPool(labelKey) :
        /\ ~Truthy(buffer)
        /\ Consume(entity)

\* A subscript of an absent 'word' key raises KeyError out of the function.
MergeRaise ==
    \E entity \in AggPool(labelKey) :
        /\ Truthy(buffer)
        /\ \/ IsSubword(entity) /\ SubwordRaises(buffer[1], entity)
           \/ /\ ~IsSubword(entity)
              /\ SameEntity(buffer[1], entity) /\ IsAdjacent(buffer[1], entity)
              /\ AdjacentRaises(buffer[1], entity)
        /\ Consume(entity)

\* The list is exhausted: flush the buffer and return merged (lines 140-144).
MergeReturn ==
    /\ aggPc = "loop"
    /\ merged' = FlushBuffer(AggState)
    /\ buffer' = <<>>
    /\ aggPc' = "done"
    /\ UNCHANGED <<labelKey, entities, exVars, alVars, laterVars>>

AggNext ==
    \/ MergeEmptyInput
    \/ MergeSubword
    \/ MergeAdjacent
    \/ CloseAndOpen
    \/ OpenBuffer
    \/ MergeRaise
    \/ MergeReturn

vars == <<aggVars, exVars, alVars, laterVars>>

SpecAgg == AggInit /\ [][AggNext]_vars

\* ------------------------------------------------- aggregator: properties
\* The label of a prediction or span, whichever key carries it.
LabelOf(e) == IF e.entity # NoneVal THEN e.entity ELSE e.entity_group

\* The prediction the step just taken consumed.
Consumed == entities'[Len(entities')]
Consumes == Len(entities') = Len(entities) + 1

\* The fragment with its leading continuation marker taken off.
StripMarker(w) == IF StartsWith(w, Marker) THEN SubSeq(w, Len(Marker) + 1, Len(w)) ELSE w

HasMarker(e) == e.word # MissingWord /\ StartsWith(e.word, Marker)

C6_MergeNeedsSameLabel ==
    [][(/\ Consumes /\ buffer # <<>> /\ ~HasMarker(Consumed)
        /\ aggPc' = "loop" /\ merged' = merged) =>
          /\ LabelOf(buffer[1]) = LabelOf(Consumed)
          /\ Consumed.start - buffer[1].end <= 2]_vars

\* The fragment of e, continuation marker removed, is the transcript's
\* substring at e's own offsets.
FragmentAtOffsets(e) ==
    e.word # MissingWord /\ StripMarker(e.word) = PySlice(AggText, e.start, e.end)

OrderedByStart(ents) ==
    \A i \in 1..(Len(ents) - 1) : ents[i].start <= ents[i + 1].start

\* start <= end and text == transcript[start:end]
SpanMatchesText(sp) ==
    /\ sp.start <= sp.end
    /\ sp.word = PySlice(AggText, sp.start, sp.end)

\* C7 (as claimed): for a list ordered by start whose fragments (marker
\* removed) equal the transcript at their offsets, every span returned has
\* start <= end and text == transcript[start:end].
C7_SpansMatchTranscript ==
    (/\ aggPc = "done"
     /\ OrderedByStart(entities)
     /\ \A i \in 1..Len(entities) : FragmentAtOffsets(entities[i]))
    => \A k \in 1..Len(merged) : SpanMatchesText(merged[k])

\* No prediction starts before its predecessor ends, a continuation piece
\* starts exactly where its predecessor ends, and the list does not open with
\* a continuation piece.
Contiguous(ents) ==
    /\ ents # <<>> => ~HasMarker(ents[1])
    /\ \A i \in 1..(Len(ents) - 1) :
          /\ ents[i].end <= ents[i + 1].start
          /\ HasMarker(ents[i + 1]) => ents[i + 1].start = ents[i].end

\* The fragment of e with every '##' removed is the transcript's substring
\* at e's offsets (a non-continuation fragment is taken as it is).
FragmentAtOffsetsAllRemoved(e) ==
    /\ e.word # MissingWord
    /\ e.start <= e.end
    /\ (IF HasMarker(e) THEN RemoveAll(e.word, Marker) ELSE e.word)
          = PySlice(AggText, e.start, e.end)

\* C7 (amended): as claimed, for lists that are moreover contiguous in the
\* sense of Contiguous.
C7_ContiguousSpansMatchTranscript ==
    (/\ aggPc = "done"
     /\ Contiguous(entities)
     /\ \A i \in 1..Len(entities) : FragmentAtOffsetsAllRemoved(entities[i]))
    => \A k \in 1..Len(merged) : SpanMatchesText(merged[k])

\* C7 witness: '#c'@6-8 and 'd'@10-11 were merged across the two-character
\* gap into '#c  d'@6-11, the transcript's own text.
C7_Witness ==
    /\ aggPc = "done" /\ Len(entities) = 2
    /\ Contiguous(entities)
    /\ \A i \in 1..Len(entities) : FragmentAtOffsetsAllRemoved(entities[i])
    /\ Len(merged) = 1
    /\ merged[1].start = 6 /\ merged[1].end = 11
    /\ merged[1].word = <<"#", "c", " ", " ", "d">>

\* No fragment starts with '##' and every gap between one prediction's end
\* and the next one's start exceeds the threshold.
Unfragmented(ents) ==
    /\ \A i \in 1..Len(ents) : ~HasMarker(ents[i])
    /\ \A i \in 1..(Len(ents) - 1) : ents[i + 1].start - ents[i].end > 2

\* C8: round trip. An unfragmented list comes back with the same length and
\* the same label, text, start and end at every position.
C8_RoundTrip ==
    (aggPc = "done" /\ Unfragmented(entities)) =>
        /\ Len(merged) = Len(entities)
        /\ \A i \in 1..Len(entities) :
              /\ LabelOf(merged[i]) = LabelOf(entities[i])
              /\ merged[i].word = entities[i].word
              /\ merged[i].start = entities[i].start
              /\ merged[i].end = entities[i].end

\* C8 witness: three predictions, the first two exactly one character
\* further apart than the threshold, returned as three spans.
C8_Witness ==
    /\ aggPc = "done" /\ Unfragmented(entities)
    /\ Len(entities) = 3 /\ Len(merged) = 3
    /\ entities[2].start - entities[1].end = 3

\* C9 (as claimed): aggregating the output of aggregation changes nothing.
C9_Idempotent ==
    aggPc = "done" =>
        MergeSubwordTokens(merged, AggText) = [raised |-> FALSE, spans |-> merged]

\* No span after the first has a text that starts with '##'.
NoLaterMarkerSpan(spans) == \A k \in 2..Len(spans) : ~HasMarker(spans[k])

\* C9 (amended): aggregating the output again changes nothing, provided no
\* span of the output after the first has a text starting with '##'.
C9_IdempotentWithoutMarkerSpans ==
    (aggPc = "done" /\ NoLaterMarkerSpan(merged)) =>
        MergeSubwordTokens(merged, AggText) = [raised |-> FALSE, spans |-> merged]

\* C9 witness: three predictions were merged down to two spans (a
\* continuation merge among them), and that output is its own aggregation.
C9_Witness ==
    /\ aggPc = "done" /\ Len(entities) = 3 /\ Len(merged) = 2
    /\ \E i \in 1..3 : HasMarker(entities[i])
    /\ NoLaterMarkerSpan(merged)
    /\ merged[1].word # entities[1].word
    /\ MergeSubwordTokens(merged, AggText).spans = merged

\* ===================================================================== text
\* Character classes of Python's re module over the model's alphabet.
Digits == <<"0", "1", "2", "3", "4", "5", "6", "7", "8", "9">>
LowerLetters == <<"a", "b", "c", "d", "e", "f", "g", "h", "i", "j", "k", "l", "m",
                  "n", "o", "p", "q", "r", "s", "t", "u", "v", "w", "x", "y", "z">>
UpperLetters == <<"A", "B", "C", "D", "E", "F", "G", "H", "I", "J", "K", "L", "M",
                  "N", "O", "P", "Q", "R", "S", "T", "U", "V", "W", "X", "Y", "Z">>

Range(f) == {f[i] : i \in DOMAIN f}

IsDigit(c) == c \in Range(Digits)
IsLower(c) == c \in Range(LowerLetters)
IsUpper(c) == c \in Range(UpperLetters)
\* [A-Za-z0-9]
IsAlnum(c) == IsDigit(c) \/ IsLower(c) \/ IsUpper(c)
\* \w
IsWordChar(c) == IsAlnum(c) \/ c = "_"
\* \s
IsSpace(c) == c = " "

\* int(c) of a digit character
DigitValue(c) == (CHOOSE i \in DOMAIN Digits : Digits[i] = c) - 1

\* str.lower()
LowerChar(c) ==
    IF IsUpper(c) THEN LowerLetters[CHOOSE i \in DOMAIN UpperLetters : UpperLetters[i] = c]
    ELSE c
Lower(s) == [i \in DOMAIN s |-> LowerChar(s[i])]

\* str.strip()
RECURSIVE LStrip(_)
LStrip(s) == IF s # <<>> /\ IsSpace(Head(s)) THEN LStrip(Tail(s)) ELSE s
RECURSIVE RStrip(_)
RStrip(s) ==
    IF s # <<>> /\ IsSpace(s[Len(s)]) THEN RStrip(SubSeq(s, 1, Len(s) - 1)) ELSE s
Strip(s) == RStrip(LStrip(s))

\* s.replace(old, new)
RECURSIVE Replace(_, _, _)
Replace(s, old, new) ==
    IF s = <<>> THEN <<>>
    ELSE IF StartsWith(s, old) THEN new \o Replace(SubSeq(s, Len(old) + 1, Len(s)), old, new)
    ELSE <<Head(s)>> \o Replace(Tail(s), old, new)

\* re.sub(r"[<class>]+", " ", s): every maximal run of class characters
\* becomes one space.
RECURSIVE SubRuns(_, _, _)
SubRuns(s, class, inRun) ==
    IF s = <<>> THEN <<>>
    ELSE IF Head(s) \in class THEN
        (IF inRun THEN <<>> ELSE <<" ">>) \o SubRuns(Tail(s), class, TRUE)
    ELSE <<Head(s)>> \o SubRuns(Tail(s), class, FALSE)

\* [,\.;]
PunctNoise == {",", ".", ";"}
\* \s
Spaces == {" "}

\* s.split(): the maximal runs of non-space characters.
RECURSIVE Split(_)
Split(s) ==
    LET t == LStrip(s) IN
    IF t = <<>> THEN <<>>
    ELSE LET n == IF \E i \in 1..Len(t) : IsSpace(t[i])
                  THEN (CHOOSE i \in 1..Len(t) :
                            IsSpace(t[i]) /\ \A j \in 1..(i - 1) : ~IsSpace(t[j])) - 1
                  ELSE Len(t)
         IN  <<SubSeq(t, 1, n)>> \o Split(SubSeq(t, n + 1, Len(t)))

\* " ".join(words)
RECURSIVE Join(_)
Join(words) ==
    IF words = <<>> THEN <<>>
    ELSE IF Len(words) = 1 THEN words[1]
    ELSE words[1] \o <<" ">> \o Join(Tail(words))

\* The literal w stands in s at offset p (0-based).
LitAt(s, p, w) == p + Len(w) <= Len(s) /\ SubSeq(s, p + 1, p + Len(w)) = w

\* \b at offset p
Boundary(s, p) ==
    (p > 0 /\ IsWordChar(s[p])) # (p < Len(s) /\ IsWordChar(s[p + 1]))

\* The offset after the run of spaces that starts at offset p (\s* , greedy).
RECURSIVE SkipSpaces(_, _)
SkipSpaces(s, p) == IF p < Len(s) /\ IsSpace(s[p + 1]) THEN SkipSpaces(s, p + 1) ELSE p

\* sub in s
Contains(s, sub) == \E p \in 0..Len(s) : LitAt(s, p, sub)

\* Option values: <<>> is None, <<v>> is the value v.
None == <<>>
Some(v) == <<v>>

SetMin(S) == CHOOSE x \in S : \A y \in S : x <= y

\* ============================================================ postprocess.py
\* clean_transcript
CleanTranscript(t) ==
    LET t1 == Strip(t)
        t2 == Replace(Replace(t1, <<"p", ".", "m", ".">>, <<"p", "m">>),
                      <<"a", ".", "m", ".">>, <<"a", "m">>)
        t3 == Replace(Replace(t2, <<"p", ".", "m">>, <<"p", "m">>),
                      <<"a", ".", "m">>, <<"a", "m">>)
        t4 == SubRuns(t3, PunctNoise, FALSE)
    IN  Strip(SubRuns(t4, Spaces, FALSE))

\* ------------------------------------------------------ rule-based: surgeons
W_surgeon == <<"s", "u", "r", "g", "e", "o", "n">>
W_in == <<"i", "n">>
W_out == <<"o", "u", "t">>
W_end == <<"e", "n", "d">>
W_dr == <<"d", "r">>
W_doctor == <<"d", "o", "c", "t", "o", "r">>

\* \bw\b at offset p
WordAt(s, p, w) == Boundary(s, p) /\ LitAt(s, p, w) /\ Boundary(s, p + Len(w))

\* t.replace("surgeon one", "surgeon 1") ... (lines 85-86)
NormalizeSurgeonPhrases(t) ==
    LET one == W_surgeon \o <<" ", "1">>
        two == W_surgeon \o <<" ", "2">>
        t1 == Replace(t, W_surgeon \o <<" ", "o", "n", "e">>, one)
        t2 == Replace(t1, <<"f", "i", "r", "s", "t", " ">> \o W_surgeon, one)
        t3 == Replace(t2, W_surgeon \o <<" ", "t", "w", "o">>, two)
    IN  Replace(t3, <<"s", "e", "c", "o", "n", "d", " ">> \o W_surgeon, two)

\* The lookahead (?=\bsurgeon\b|\bin\b|\bout\b|\bend\b|$) at offset p.
SurgeonStopAt(s, p) ==
    \/ p = Len(s)
    \/ \E w \in {W_surgeon, W_in, W_out, W_end} : WordAt(s, p, w)

\* The offset of the slot digit when (?:^|\b)surgeon\s*<slot>\b\s+ matches
\* at offset p, else -1.
SurgeonMarkerAt(s, p, slot) ==
    LET q == SkipSpaces(s, p + Len(W_surgeon)) IN
    IF /\ (p = 0 \/ Boundary(s, p))
       /\ LitAt(s, p, W_surgeon)
       /\ LitAt(s, q, <<Digits[slot + 1]>>)
       /\ Boundary(s, q + 1)
       /\ q + 1 < Len(s) /\ IsSpace(s[q + 2])
    THEN q ELSE -1

\* re.sub(r"^(dr|doctor)\b\s*", "", val)
StripTitle(val) ==
    IF LitAt(val, 0, W_dr) /\ Boundary(val, Len(W_dr))
    THEN SubSeq(val, SkipSpaces(val, Len(W_dr)) + 1, Len(val))
    ELSE IF LitAt(val, 0, W_doctor) /\ Boundary(val, Len(W_doctor))
    THEN SubSeq(val, SkipSpaces(val, Len(W_doctor)) + 1, Len(val))
    ELSE val

\* re.fullmatch(r"[a-z\-]+", w)
IsNameToken(w) == w # <<>> /\ \A i \in 1..Len(w) : IsLower(w[i]) \/ w[i] = "-"

\* grab(slot_num) on the cleaned, lower-cased, phrase-normalised text s
\* (lines 90-105): None, or the name.
Grab(s, slot) ==
    LET starts == {p \in 0..Len(s) : SurgeonMarkerAt(s, p, slot) >= 0} IN
    IF starts = {} THEN None
    ELSE LET p == SetMin(starts)
             g == SkipSpaces(s, SurgeonMarkerAt(s, p, slot) + 1)
             e == SetMin({x \in g..Len(s) : SurgeonStopAt(s, x)})
             val == Strip(StripTitle(Strip(PySlice(s, g, e))))
             toks == SelectSeq(Split(val), IsNameToken)
         IN  IF toks = <<>> THEN None ELSE Some(Join(toks))

\* extract_surgeons_from_text
ExtractSurgeonsFromText(t) ==
    LET s == NormalizeSurgeonPhrases(Lower(CleanTranscript(t))) IN
    [surgeon_1 |-> Grab(s, 1), surgeon_2 |-> Grab(s, 2)]

\* -------------------------------------------------- rule-based: times in/out
Meridiems == {<<"a", "m">>, <<"p", "m">>}

AllDigits(s, p, n) == p + n <= Len(s) /\ \A i \in 1..n : IsDigit(s[p + i])

\* The offset after (?:am|pm) preceded by \s*, starting at offset p, else -1.
MeridiemEnd(s, p) ==
    LET q == SkipSpaces(s, p) IN
    IF \E m \in Meridiems : LitAt(s, q, m) THEN q + 2 ELSE -1

\* The number of leading digits (1..2 and 3..4, longest first) with which
\* \d{1,2}:\d{2}\s*(?:am|pm) resp. \d{3,4}\s*(?:am|pm) matches at offset p, as
\* the match's end offset; -1 when neither alternative matches there.
TimeEndAt(s, p) ==
    LET colon(n) == IF AllDigits(s, p, n) /\ LitAt(s, p + n, <<":">>)
                       /\ AllDigits(s, p + n + 1, 2)
                    THEN MeridiemEnd(s, p + n + 3) ELSE -1
        run(n) == IF AllDigits(s, p, n) THEN MeridiemEnd(s, p + n) ELSE -1
    IN  IF colon(2) >= 0 THEN colon(2)
        ELSE IF colon(1) >= 0 THEN colon(1)
        ELSE IF run(4) >= 0 THEN run(4)
        ELSE run(3)

\* The hour digits as written, leading zero kept.
StripLeadingZero_Kept(ds) == ds

\* str(int(digits)) for one or two digits
StripLeadingZero(ds) == IF Len(ds) = 2 /\ ds[1] = "0" THEN <<ds[2]>> ELSE ds

\* normalize_time_simple
NormalizeTimeSimple(raw0) ==
    LET raw == SubRuns(RemoveAll(Lower(Strip(raw0)), <<".">>), Spaces, FALSE)
        \* \b(\d{1,2}):(\d{2})\s*(am|pm)\b
        colonAt(p, n) ==
            /\ Boundary(raw, p) /\ AllDigits(raw, p, n) /\ LitAt(raw, p + n, <<":">>)
            /\ AllDigits(raw, p + n + 1, 2)
            /\ MeridiemEnd(raw, p + n + 3) >= 0
            /\ Boundary(raw, MeridiemEnd(raw, p + n + 3))
        colonHits == {<<p, n>> \in (0..Len(raw)) \X {1, 2} : colonAt(p, n)}
        \* \b(\d{3,4})\s*(am|pm)\b
        runAt(p, n) ==
            /\ Boundary(raw, p) /\ AllDigits(raw, p, n)
            /\ MeridiemEnd(raw, p + n) >= 0
            /\ Boundary(raw, MeridiemEnd(raw, p + n))
        runHits == {<<p, n>> \in (0..Len(raw)) \X {3, 4} : runAt(p, n)}
        \* leftmost match; at one offset the longer digit run is tried first
        first(hits) ==
            LET p == SetMin({h[1] : h \in hits})
                n == CHOOSE n \in {h[2] : h \in {x \in hits : x[1] = p}} :
                        \A h \in hits : h[1] = p => h[2] <= n
            IN  <<p, n>>
    IN  IF colonHits # {} THEN
            LET h == first(colonHits)
                e == MeridiemEnd(raw, h[1] + h[2] + 3)
            IN  StripLeadingZero(PySlice(raw, h[1], h[1] + h[2])) \o <<":">>
                \o PySlice(raw, h[1] + h[2] + 1, h[1] + h[2] + 3)
                \o <<" ">> \o PySlice(raw, e - 2, e)
        ELSE IF runHits # {} THEN
            LET h == first(runHits)
                e == MeridiemEnd(raw, h[1] + h[2])
                hl == h[2] - 2
            IN  StripLeadingZero(PySlice(raw, h[1], h[1] + hl)) \o <<":">>
                \o PySlice(raw, h[1] + hl, h[1] + h[2])
                \o <<" ">> \o PySlice(raw, e - 2, e)
        ELSE raw

\* Whichever of the two forms stands first in the text is taken.
ExtractTimeFromText_Leftmost(t, keyword) ==
    LET s == Lower(CleanTranscript(t))
        after(p) == SkipSpaces(s, p + Len(keyword))
        kwFirst == {p \in 0..Len(s) :
                      /\ WordAt(s, p, keyword)
                      /\ after(p) > p + Len(keyword)
                      /\ TimeEndAt(s, after(p)) >= 0}
        kwAfter(p) == SkipSpaces(s, TimeEndAt(s, p))
        timeFirst == {p \in 0..Len(s) :
                        /\ TimeEndAt(s, p) >= 0
                        /\ kwAfter(p) > TimeEndAt(s, p)
                        /\ WordAt(s, kwAfter(p), keyword)}
    IN  IF kwFirst \cup timeFirst = {} THEN None
        ELSE LET p == SetMin(kwFirst \cup timeFirst) IN
             IF p \in kwFirst
             THEN Some(NormalizeTimeSimple(PySlice(s, after(p), TimeEndAt(s, after(p)))))
             ELSE Some(NormalizeTimeSimple(PySlice(s, p, TimeEndAt(s, p))))

\* extract_time_from_text(t, keyword)
ExtractTimeFromText(t, keyword) ==
    LET s == Lower(CleanTranscript(t))
        \* \bkeyword\b\s+(<time>): the group's offsets
        after(p) == SkipSpaces(s, p + Len(keyword))
        kwFirst == {p \in 0..Len(s) :
                      /\ WordAt(s, p, keyword)
                      /\ after(p) > p + Len(keyword)
                      /\ TimeEndAt(s, after(p)) >= 0}
        \* (<time>)\s+\bkeyword\b
        kwAfter(p) == SkipSpaces(s, TimeEndAt(s, p))
        timeFirst == {p \in 0..Len(s) :
                        /\ TimeEndAt(s, p) >= 0
                        /\ kwAfter(p) > TimeEndAt(s, p)
                        /\ WordAt(s, kwAfter(p), keyword)}
    IN  IF kwFirst # {} THEN
            LET p == SetMin(kwFirst) IN
            Some(NormalizeTimeSimple(PySlice(s, after(p), TimeEndAt(s, after(p)))))
        ELSE IF timeFirst # {} THEN
            LET p == SetMin(timeFirst) IN
            Some(NormalizeTimeSimple(PySlice(s, p, TimeEndAt(s, p))))
        ELSE None

\* extract_in_time_from_text / extract_out_time_from_text
ExtractInTimeFromText(t) == ExtractTimeFromText(t, W_in)
ExtractOutTimeFromText(t) == ExtractTimeFromText(t, W_out)

\* ------------------------------------------------- helpers: numbers, joining
\* The digit run that starts at offset p (\d+, greedy): its end offset.
RECURSIVE DigitsEnd(_, _)
DigitsEnd(s, p) == IF p < Len(s) /\ IsDigit(s[p + 1]) THEN DigitsEnd(s, p + 1) ELSE p

\* int(digits)
RECURSIVE IntOf(_)
IntOf(ds) ==
    IF ds = <<>> THEN 0
    ELSE 10 * IntOf(SubSeq(ds, 1, Len(ds) - 1)) + DigitValue(ds[Len(ds)])

\* The value of the last digit run instead of the first.
FirstInt_LastRun(s) ==
    LET at == {p \in 0..(Len(s) - 1) :
                  IsDigit(s[p + 1]) /\ (p = 0 \/ ~IsDigit(s[p]))} IN
    IF at = {} THEN None
    ELSE LET p == CHOOSE x \in at : \A y \in at : y <= x
         IN  Some(IntOf(PySlice(s, p, DigitsEnd(s, p))))

\* _first_int: None, or the value of the first digit run.
FirstInt(s) ==
    LET at == {p \in 0..(Len(s) - 1) : IsDigit(s[p + 1])} IN
    IF at = {} THEN None
    ELSE LET p == SetMin(at) IN Some(IntOf(PySlice(s, p, DigitsEnd(s, p))))

\* Trailing zeros of a fraction carry no value: float('5.50') == float('5.5').
RECURSIVE DropTrailingZeros(_)
DropTrailingZeros(ds) ==
    IF ds # <<>> /\ ds[Len(ds)] = "0" THEN DropTrailingZeros(SubSeq(ds, 1, Len(ds) - 1))
    ELSE ds

\* _first_float: None, or the float of the first \d+(\.\d+)? match, held as
\* its integer part and its fraction digits.
FirstFloat(s) ==
    LET at == {p \in 0..(Len(s) - 1) : IsDigit(s[p + 1])} IN
    IF at = {} THEN None
    ELSE LET p == SetMin(at)
             e == DigitsEnd(s, p)
             f == IF LitAt(s, e, <<".">>) /\ DigitsEnd(s, e + 1) > e + 1
                  THEN DigitsEnd(s, e + 1) ELSE e
         IN  Some([whole |-> IntOf(PySlice(s, p, e)),
                   frac  |-> IF f > e THEN DropTrailingZeros(PySlice(s, e + 1, f))
                             ELSE <<>>])

\* dateutil's parser is a library outside the repository: the texts it reads
\* as a calendar date (day first) are the ones listed here; on any other
\* text it raises, which normalize_date turns into None.
KnownDates ==
    { <<<<"j", "a", "n", "u", "a", "r", "y", " ", "1", "5", "t", "h", " ", "2", "0", "2", "5">>, <<"2", "0", "2", "5", "-", "0", "1", "-", "1", "5">>>>,
      <<<<"3", "/", "4", "/", "2", "0", "2", "5">>, <<"2", "0", "2", "5", "-", "0", "4", "-", "0", "3">>>> }

\* dateparser.parse(text, dayfirst=True) followed by dt.date().isoformat():
\* the ISO date, or the exception the parser raises.
DateutilParse(text) ==
    IF \E d \in KnownDates : d[1] = Lower(text)
    THEN [raised |-> FALSE, iso |-> (CHOOSE d \in KnownDates : d[1] = Lower(text))[2]]
    ELSE [raised |-> TRUE, iso |-> <<>>]

\* normalize_date: except Exception: return None
NormalizeDate(text) ==
    LET parsed == DateutilParse(text) IN
    IF parsed.raised THEN None ELSE Some(parsed.iso)

\* normalize_time
NormalizeTime(text) ==
    SubRuns(Replace(Strip(Lower(text)), <<".">>, <<":">>), Spaces, FALSE)

\* re.search(r"[A-Za-z0-9]", w)
HasAlnum(w) == \E i \in 1..Len(w) : IsAlnum(w[i])

\* join_clean
JoinClean(words) == Strip(Join(SelectSeq(words, HasAlnum)))

\* x or None, for a string x
OrNone(text) == IF text = <<>> THEN None ELSE Some(text)


\* ------------------------------------------------------ schema: ORFormJSON
\* ORFormJSON(): the record every extraction starts from.
EmptyForm ==
    [date |-> None,
     times |-> [in |-> None, out |-> None, induction |-> None, cutting |-> None,
                end_of_surgery |-> None, dressing |-> None],
     personnel |-> [surgeon_1 |-> None, surgeon_2 |-> None, assistant_1 |-> None,
                    assistant_2 |-> None, anesthetist |-> None, scrub_nurse |-> None,
                    circulating_nurse |-> None, anesthesia_technician |-> None],
     diagnosis |-> [pre_op |-> None, post_op |-> None],
     operation |-> [name |-> None, code |-> None, notes |-> None],
     anesthesia |-> [type |-> <<>>, sedation |-> None],
     position |-> None,
     devices |-> [foley |-> FALSE, foley_with_irrigation |-> FALSE, hemovac |-> FALSE,
                  ng_tube |-> FALSE, chest_tube |-> FALSE, others |-> <<>>],
     specimen |-> [sent |-> FALSE, type |-> <<>>],
     condition_post_op |-> None,
     vitals |-> [bp_systolic |-> None, bp_diastolic |-> None, heart_rate |-> None,
                 spo2 |-> None],
     medications |-> <<>>,
     free_notes |-> <<>>]

\* The top-level fields of the schema.
SchemaFields == DOMAIN EmptyForm

\* {}
EmptyDict == <<>>

\* ------------------------------------------- decoder: decode_entities_to_json
AnesthesiaTypes ==
    <<<<"g", "e", "n", "e", "r", "a", "l">>,
      <<"s", "p", "i", "n", "a", "l">>,
      <<"e", "p", "i", "d", "u", "r", "a", "l">>,
      <<"l", "o", "c", "a", "l">>,
      <<"r", "e", "g", "i", "o", "n", "a", "l">>>>
SpecimenTypes ==
    <<<<"p", "a", "t", "h", "o", "l", "o", "g", "y">>,
      <<"c", "u", "l", "t", "u", "r", "e">>,
      <<"c", "y", "t", "o", "l", "o", "g", "y">>,
      <<"f", "r", "o", "z", "e", "n">>,
      <<"c", "s", "f">>,
      <<"s", "t", "o", "n", "e">>>>
W_foley == <<"f", "o", "l", "e", "y">>
W_irrigation == <<"i", "r", "r", "i", "g", "a", "t", "i", "o", "n">>
W_hemovac == <<"h", "e", "m", "o", "v", "a", "c">>
W_ng == <<"n", "g">>
W_ngt == <<"n", "g", "t">>
W_chest == <<"c", "h", "e", "s", "t">>

\* if not label or word is None: continue
Grouped(e) == e.entity_group \notin {NoneVal, ""} /\ e.word # MissingWord

\* spans[label]: the words of the entities grouped under label, in order.
SpanWords(ents, label) ==
    LET ofLabel(e) == Grouped(e) /\ e.entity_group = label
        hits == SelectSeq(ents, ofLabel)
    IN  [i \in DOMAIN hits |-> hits[i].word]

\* label in spans
InSpans(ents, label) == \E i \in DOMAIN ents : Grouped(ents[i]) /\ ents[i].entity_group = label

\* Where a word is first seen in a text that contains it (0-based).
FirstSeen(text, word) == SetMin({q \in 0..Len(text) : LitAt(text, q, word)})

\* The vocabulary entries found in text, in the order they are first seen in it.
VocabularyHits_TextOrder(text, vocabulary) ==
    LET found(t) == Contains(text, t)
        earlier(a, b) == FirstSeen(text, a) < FirstSeen(text, b)
    IN  SortSeq(SelectSeq(vocabulary, found), earlier)

\* The vocabulary entries found in text, in vocabulary order.
VocabularyHits(text, vocabulary) ==
    LET found(t) == Contains(text, t) IN SelectSeq(vocabulary, found)

\* A text field: join_clean(spans[label]) or None when the label has spans.
TextField(ents, label) ==
    IF InSpans(ents, label) THEN OrNone(JoinClean(SpanWords(ents, label))) ELSE None

\* A lower-cased text field.
LowerTextField(ents, label) ==
    IF InSpans(ents, label) THEN OrNone(Lower(JoinClean(SpanWords(ents, label)))) ELSE None

\* A time field: normalize_time(join_clean(spans[label])).
TimeField(ents, label) ==
    IF InSpans(ents, label) THEN Some(NormalizeTime(JoinClean(SpanWords(ents, label))))
    ELSE None

\* A vital sign: _first_int(join_clean(spans[label])).
VitalField(ents, label) ==
    IF InSpans(ents, label) THEN FirstInt(JoinClean(SpanWords(ents, label))) ELSE None

\* One entry per DRUG span instead of one for the whole group.
Medications_PerDrugSpan(ents) ==
    LET named(w) == HasAlnum(w)
        drugs == SelectSeq(SpanWords(ents, "DRUG"), named)
        dose == FirstFloat(JoinClean(SpanWords(ents, "DOSE")))
        unit == OrNone(Strip(RemoveAll(JoinClean(SpanWords(ents, "UNIT")), Marker)))
    IN  [i \in DOMAIN drugs |-> [name |-> Strip(drugs[i]), dose |-> dose, unit |-> unit]]

\* The single medication entry (lines 282-287).
Medications(ents) ==
    LET drug_name == JoinClean(SpanWords(ents, "DRUG"))
        dose == FirstFloat(JoinClean(SpanWords(ents, "DOSE")))
        unit == OrNone(Strip(RemoveAll(JoinClean(SpanWords(ents, "UNIT")), Marker)))
    IN  IF InSpans(ents, "DRUG") /\ drug_name # <<>>
        THEN <<[name |-> drug_name, dose |-> dose, unit |-> unit]>>
        ELSE <<>>

\* The form after the model-derived fields are filled in (lines 181-287).
DecodeSpans(ents) ==
    LET devices == Lower(JoinClean(SpanWords(ents, "DEVICE")))
        hasDevice == InSpans(ents, "DEVICE")
    IN
    [date |-> IF InSpans(ents, "DATE")
              THEN NormalizeDate(JoinClean(SpanWords(ents, "DATE"))) ELSE None,
     times |-> [in |-> TimeField(ents, "TIME_IN"),
                out |-> TimeField(ents, "TIME_OUT"),
                induction |-> TimeField(ents, "TIME_INDUCTION"),
                cutting |-> TimeField(ents, "TIME_CUTTING"),
                end_of_surgery |-> TimeField(ents, "TIME_END"),
                dressing |-> TimeField(ents, "TIME_DRESSING")],
     personnel |-> [surgeon_1 |-> TextField(ents, "PERSON_SURGEON"),
                    surgeon_2 |-> None,
                    assistant_1 |-> None,
                    assistant_2 |-> None,
                    anesthetist |-> TextField(ents, "PERSON_ANESTHETIST"),
                    scrub_nurse |-> TextField(ents, "PERSON_SCRUB"),
                    circulating_nurse |-> TextField(ents, "PERSON_CIRC"),
                    anesthesia_technician |-> TextField(ents, "PERSON_TECH")],
     diagnosis |-> [pre_op |-> TextField(ents, "DIAG_PRE"),
                    post_op |-> TextField(ents, "DIAG_POST")],
     operation |-> [name |-> TextField(ents, "OP_NAME"),
                    code |-> TextField(ents, "OP_CODE"),
                    notes |-> None],
     anesthesia |-> [type |-> IF InSpans(ents, "ANES_TYPE")
                              THEN VocabularyHits(
                                       Lower(JoinClean(SpanWords(ents, "ANES_TYPE"))),
                                       AnesthesiaTypes)
                              ELSE <<>>,
                     sedation |-> None],
     position |-> LowerTextField(ents, "POSITION"),
     devices |-> [foley |-> hasDevice /\ Contains(devices, W_foley),
                  foley_with_irrigation |-> hasDevice /\ Contains(devices, W_irrigation),
                  hemovac |-> hasDevice /\ Contains(devices, W_hemovac),
                  ng_tube |-> hasDevice /\ (Contains(devices, W_ng) \/ Contains(devices, W_ngt)),
                  chest_tube |-> hasDevice /\ Contains(devices, W_chest),
                  others |-> <<>>],
     specimen |-> [sent |-> InSpans(ents, "SPECIMEN"),
                   type |-> IF InSpans(ents, "SPECIMEN")
                            THEN VocabularyHits(
                                     Lower(JoinClean(SpanWords(ents, "SPECIMEN"))),
                                     SpecimenTypes)
                            ELSE <<>>],
     condition_post_op |-> LowerTextField(ents, "CONDITION"),
     vitals |-> [bp_systolic |-> VitalField(ents, "BP_SYS"),
                 bp_diastolic |-> VitalField(ents, "BP_DIA"),
                 heart_rate |-> VitalField(ents, "HR"),
                 spo2 |-> VitalField(ents, "SPO2")],
     medications |-> Medications(ents),
     free_notes |-> <<>>]

\* if rule_value: field = rule_value (a rule result is None or a string).
Override_KeepModel(ruleValue, modelValue) ==
    IF modelValue # None THEN modelValue ELSE ruleValue

Override(ruleValue, modelValue) ==
    IF ruleValue # None /\ ruleValue # Some(<<>>) THEN ruleValue ELSE modelValue

\* The rule-based overrides (lines 292-304).
RuleOverrides(f, t) ==
    LET surg == ExtractSurgeonsFromText(t) IN
    [f EXCEPT !.personnel.surgeon_1 = Override(surg.surgeon_1, @),
              !.personnel.surgeon_2 = Override(surg.surgeon_2, @),
              !.times.in = Override(ExtractInTimeFromText(t), @),
              !.times.out = Override(ExtractOutTimeFromText(t), @)]

\* form.free_notes = (transcript or "").strip()
FreeNotes_Untrimmed(t) == t

FreeNotes(t) == Strip(t)

\* decode_entities_to_json(entities, transcript)
DecodeEntitiesToJson(ents, t) ==
    [RuleOverrides(DecodeSpans(ents), t) EXCEPT !.free_notes = FreeNotes(t)]


\* ------------------------------------------------- extract: input domain
\* Longest prediction list the pipeline returns to extract.
MaxExtractPreds == 2

\* Transcripts handed to extract: with and without a match of each rule,
\* with padding, with upper case.
Transcripts ==
    { <<>>,
      <<" ", " ", "m", "a", "r", "y", " ", "l", "e", "e", " ", " ">>,
      <<"s", "u", "r", "g", "e", "o", "n", " ", "1", " ", "j", "o", "h", "n", " ", "s", "m", "i", "t", "h", " ", "i", "n", " ", "9", "3", "0", " ", "p", "m">>,
      <<"s", "u", "r", "g", "e", "o", "n", " ", "2", " ", "l", "e", "e", " ", "o", "u", "t", " ", "0", "7", "4", "5", " ", "p", "m">>,
      <<" ", "I", "n", " ", "9", ":", "3", "0", " ", "P", "M", " ", " ">>,
      <<"S", "u", "r", "g", "e", "o", "n", " ", "o", "n", "e", " ", "A", "m", "y">> }

\* Spans the pipeline may return (aggregated: the label key is 'entity_group'),
\* one of them without its 'word' key, one with a whitespace-only fragment.
ExtractPool ==
    { Entity("entity_group", "PERSON_SURGEON", <<"m", "a", "r", "y">>, <<2, 6>>),
      Entity("entity_group", "PERSON_SURGEON", <<" ">>, <<6, 7>>),
      Entity("entity_group", "PERSON_SURGEON", <<"l", "e", "e">>, <<7, 10>>),
      Entity("entity_group", "TIME_IN", <<"8", ".", "1", "5", " ", "A", "M">>, <<20, 27>>),
      Entity("entity_group", "TIME_IN", MissingWord, <<28, 29>>),
      Entity("entity_group", "TIME_OUT", <<"-">>, <<40, 41>>),
      Entity("entity_group", "DATE", <<"3", "/", "4", "/", "2", "0", "2", "5">>, <<50, 58>>) }

PredictionLists == UNION {[1..n -> ExtractPool] : n \in 0..MaxExtractPreds}

\* ------------------------------------------ extract: SlotFillingExtractor
ExtractInit ==
    /\ AggIdle
    /\ AlignIdle
    /\ LaterIdle
    /\ transcript \in Transcripts
    /\ available \in BOOLEAN
    /\ rawEntities = None
    /\ mergedEntities = <<>>
    /\ result = <<>>
    /\ exPc = "start"

\* if not self.is_available(): return {} (lines 72-74)
ExtractUnavailable ==
    /\ exPc = "start" /\ ~available
    /\ result' = EmptyDict
    /\ exPc' = "returned"
    /\ UNCHANGED <<transcript, available, rawEntities, mergedEntities, aggVars, alVars, laterVars>>

\* raw_entities = self.pipe(transcript) (line 77)
PipeReturns ==
    /\ exPc = "start" /\ available
    /\ \E raw \in PredictionLists : rawEntities' = Some(raw)
    /\ exPc' = "piped"
    /\ UNCHANGED <<transcript, available, mergedEntities, result, aggVars, alVars, laterVars>>

\* The pipeline call raises: except Exception: return {} (lines 81-83)
PipeRaises ==
    /\ exPc = "start" /\ available
    /\ result' = EmptyDict
    /\ exPc' = "returned"
    /\ UNCHANGED <<transcript, available, rawEntities, mergedEntities, aggVars, alVars, laterVars>>

\* The aggregation returns and the decoder's record is returned (lines 79-80).
ExtractDecodes ==
    LET agg == MergeSubwordTokens(rawEntities[1], transcript) IN
    /\ exPc = "piped" /\ ~agg.raised
    /\ mergedEntities' = agg.spans
    /\ result' = DecodeEntitiesToJson(agg.spans, transcript)
    /\ exPc' = "returned"
    /\ UNCHANGED <<transcript, available, rawEntities, aggVars, alVars, laterVars>>

\* The aggregation raises: except Exception: return {} (lines 81-83)
ExtractCatches ==
    LET agg == MergeSubwordTokens(rawEntities[1], transcript) IN
    /\ exPc = "piped" /\ agg.raised
    /\ result' = EmptyDict
    /\ exPc' = "returned"
    /\ UNCHANGED <<transcript, available, rawEntities, mergedEntities, aggVars, alVars, laterVars>>

ExtractNext ==
    \/ ExtractUnavailable
    \/ PipeReturns
    \/ PipeRaises
    \/ ExtractDecodes
    \/ ExtractCatches

SpecExtract == ExtractInit /\ [][ExtractNext]_vars


\* ------------------------------------------------- properties of extract
\* extract has returned the record the decoder built.
ReturnedRecord == exPc = "returned" /\ result # EmptyDict

\* The four fields a rule can override, read from a record.
Surgeon1(r) == r.personnel.surgeon_1
Surgeon2(r) == r.personnel.surgeon_2
TimeIn(r) == r.times.in
TimeOut(r) == r.times.out

\* The rule's value when the rule matched, else the model-derived value.
RuleElseModel(ruleValue, modelValue) == IF ruleValue # None THEN ruleValue ELSE modelValue

\* C1: in the record the decoder returns, personnel.surgeon_1,
\* personnel.surgeon_2, times.in and times.out each equal the value the
\* rule-based extractor finds in the transcript whenever it finds one,
\* whatever the model spans say, and the model-derived value (possibly
\* unset) whenever the rule finds no match.
C1_RuleWinsElseModel ==
    ReturnedRecord =>
        LET surg == ExtractSurgeonsFromText(transcript)
            model == DecodeSpans(mergedEntities)
        IN  /\ Surgeon1(result) = RuleElseModel(surg.surgeon_1, Surgeon1(model))
            /\ Surgeon2(result) = RuleElseModel(surg.surgeon_2, Surgeon2(model))
            /\ TimeIn(result) = RuleElseModel(ExtractInTimeFromText(transcript), TimeIn(model))
            /\ TimeOut(result) = RuleElseModel(ExtractOutTimeFromText(transcript), TimeOut(model))

\* A returned record where the surgeon rule matched against a different
\* model span for surgeon_1, and where no rule matched for times.out, which
\* the model had set.
C1_Witness ==
    /\ ReturnedRecord
    /\ ExtractSurgeonsFromText(transcript).surgeon_1 # None
    /\ Surgeon1(DecodeSpans(mergedEntities)) # None
    /\ Surgeon1(DecodeSpans(mergedEntities)) # ExtractSurgeonsFromText(transcript).surgeon_1
    /\ Surgeon1(result) = ExtractSurgeonsFromText(transcript).surgeon_1
    /\ ExtractOutTimeFromText(transcript) = None
    /\ TimeOut(result) # None

\* C2: whatever the transcript and the prediction list, and even when the
\* aggregation fails inside the call, what extract returns carries the
\* complete fixed schema: it never lacks a schema field.
C2_ReturnsCompleteSchema ==
    exPc = "returned" => DOMAIN result = SchemaFields

\* C3 (as stated): with an empty prediction list the returned record has
\* every field unset/empty except free_notes, the trimmed transcript.
C3_EmptyListOnlyFreeNotes ==
    (exPc = "returned" /\ rawEntities = Some(<<>>)) =>
        result = [EmptyForm EXCEPT !.free_notes = Strip(transcript)]

\* C3 (amended): with an empty prediction list the returned record has every
\* field unset/empty except free_notes, the trimmed transcript, and the four
\* rule-derived fields, which hold what the rule-based extractor finds in
\* the transcript (unset where it finds nothing).
C3_EmptyListOnlyRulesAndFreeNotes ==
    (exPc = "returned" /\ rawEntities = Some(<<>>)) =>
        result = [EmptyForm EXCEPT
                    !.free_notes = Strip(transcript),
                    !.personnel.surgeon_1 = ExtractSurgeonsFromText(transcript).surgeon_1,
                    !.personnel.surgeon_2 = ExtractSurgeonsFromText(transcript).surgeon_2,
                    !.times.in = ExtractInTimeFromText(transcript),
                    !.times.out = ExtractOutTimeFromText(transcript)]

\* An extraction with an empty prediction list has returned, a rule matched
\* and the transcript had padding to trim.
C3_Witness ==
    /\ exPc = "returned" /\ rawEntities = Some(<<>>)
    /\ TimeIn(result) # None
    /\ result.free_notes # transcript

\* C4: whatever the transcript and the prediction list, what extract returns
\* has free_notes equal to the transcript without its leading and trailing
\* whitespace.
C4_FreeNotesIsTrimmedTranscript ==
    exPc = "returned" =>
        /\ "free_notes" \in DOMAIN result
        /\ result.free_notes = Strip(transcript)


\* ----------------------------------------- aligner: input domain
\* Longest raw prediction list handed to the aligner.
MaxAlignPreds == 2

\* Token lists from a whitespace split: "", "ab", "ab cd", "ab ab cd".
TokenLists ==
    { <<>>,
      <<<<"a", "b">>>>,
      <<<<"a", "b">>, <<"c", "d">>>>,
      <<<<"a", "b">>, <<"a", "b">>, <<"c", "d">>>> }

\* 'entity' values a raw prediction may carry (None: the key is absent).
AlignEntities ==
    { Some(<<"B", "-", "D">>), Some(<<"I", "-", "D">>), Some(<<"B", "-", "T">>), Some(<<"i", "-", "t">>), Some(<<"O">>), None }

\* Offsets a raw prediction may carry (None: the keys are absent): the first
\* token, the second token, both, the blank between them.
AlignOffsets ==
    { [start |-> Some(0), end |-> Some(2)],
      [start |-> Some(3), end |-> Some(5)],
      [start |-> Some(1), end |-> Some(4)],
      [start |-> Some(2), end |-> Some(3)],
      [start |-> None, end |-> None] }

AlignPool ==
    {[entity |-> e, start |-> o.start, end |-> o.end] : e \in AlignEntities, o \in AlignOffsets}

\* ------------------------- aligner: _align_predictions_to_tokens
\* str.upper()
UpperChar(c) ==
    IF IsLower(c) THEN UpperLetters[CHOOSE i \in DOMAIN LowerLetters : LowerLetters[i] = c]
    ELSE c
Upper(s) == [i \in DOMAIN s |-> UpperChar(s[i])]

\* dict.get(key, default)
GetOr(value, default) == IF value = None THEN default ELSE value[1]

TagO == <<"O">>
PrefixB == <<"B", "-">>
PrefixI == <<"I", "-">>

\* text.find(token, pos): the first offset >= pos where token stands, or -1.
Find(text, token, pos) ==
    LET at == {q \in pos..Len(text) : LitAt(text, q, token)} IN
    IF at = {} THEN 0 - 1 ELSE SetMin(at)

\* token_positions (lines 127-139): the (start, end) of the first k tokens and
\* the search position after them.
RECURSIVE PositionsUpTo(_, _)
PositionsUpTo(toks, k) ==
    IF k = 0 THEN [positions |-> <<>>, pos |-> 0]
    ELSE LET before == PositionsUpTo(toks, k - 1)
             start == Find(Join(toks), toks[k], before.pos)
         IN  IF start = 0 - 1
             THEN [positions |-> Append(before.positions,
                                        <<before.pos, before.pos + Len(toks[k])>>),
                   pos |-> before.pos]
             ELSE [positions |-> Append(before.positions, <<start, start + Len(toks[k])>>),
                   pos |-> start + Len(toks[k])]

TokenPositions(toks) == PositionsUpTo(toks, Len(toks)).positions

\* The tag a prediction carries (lines 145-153).
TagOf(pred) ==
    LET entity_tag == Upper(GetOr(pred.entity, TagO)) IN
    IF StartsWith(entity_tag, PrefixB) \/ StartsWith(entity_tag, PrefixI) THEN entity_tag
    ELSE TagO

\* tag[2:]
TagType(tag) == PySlice(tag, 2, Len(tag))

\* pred_start < token_end and pred_end > token_start (line 158)
Overlaps(pred, position) ==
    GetOr(pred.start, 0) < position[2] /\ GetOr(pred.end, 0) > position[1]

\* if token_idx == 0 or tags[token_idx] == 'O' (line 159)
AssignsWithoutLooking(idx, current) == idx = 0 \/ current = TagO

\* elif tag.startswith('B-') and tag[2:] != tags[token_idx][2:] (line 162)
BeginsOtherType(tag, current) ==
    StartsWith(tag, PrefixB) /\ TagType(tag) # TagType(current)

\* The tag of token idx after the prediction was applied to it (lines 158-164).
TagAfter(pred, idx, position, current) ==
    IF ~Overlaps(pred, position) THEN current
    ELSE IF AssignsWithoutLooking(idx, current) THEN TagOf(pred)
    ELSE IF BeginsOtherType(TagOf(pred), current) THEN TagOf(pred)
    ELSE current


\* The tags after one prediction was applied to every token (lines 156-164).
ApplyPrediction(pred, toks, tgs) ==
    [i \in DOMAIN tgs |-> TagAfter(pred, i - 1, TokenPositions(toks)[i], tgs[i])]

\* The tags after the first k predictions were applied in order.
RECURSIVE ApplyFirst(_, _, _)
ApplyFirst(preds, k, toks) ==
    IF k = 0 THEN [i \in DOMAIN toks |-> TagO]
    ELSE ApplyPrediction(preds[k], toks, ApplyFirst(preds, k - 1, toks))

\* _align_predictions_to_tokens(tokens, raw_predictions)
AlignPredictionsToTokens(toks, preds) == ApplyFirst(preds, Len(preds), toks)

\* ------------------------------------------------------- aligner: state
AlignInit ==
    /\ AggIdle
    /\ ExtractIdle
    /\ LaterIdle
    /\ tokens \in TokenLists
    /\ tags = [i \in DOMAIN tokens |-> TagO]
    /\ prediction = None
    /\ predCount = 0
    /\ tokenIdx = 0
    /\ alPc = "start"

\* if not raw_predictions: return tags (lines 124-125)
AlignNoPredictions ==
    /\ alPc = "start"
    /\ alPc' = "returned"
    /\ UNCHANGED <<tokens, tags, prediction, predCount, tokenIdx, aggVars, exVars, laterVars>>

\* for pred in raw_predictions: the outer loop reaches its next prediction.
NextPrediction ==
    /\ alPc \in {"start", "next"}
    /\ predCount < MaxAlignPreds
    /\ \E pred \in AlignPool : prediction' = Some(pred)
    /\ predCount' = predCount + 1
    /\ tokenIdx' = 0
    /\ alPc' = IF tokens = <<>> THEN "next" ELSE "tokens"
    /\ UNCHANGED <<tokens, tags, aggVars, exVars, laterVars>>

\* One pass of the inner loop body over token tokenIdx.
VisitToken ==
    /\ tags' = [tags EXCEPT ![tokenIdx + 1] =
                   TagAfter(prediction[1], tokenIdx, TokenPositions(tokens)[tokenIdx + 1], @)]
    /\ tokenIdx' = tokenIdx + 1
    /\ alPc' = IF tokenIdx + 1 = Len(tokens) THEN "next" ELSE "tokens"
    /\ UNCHANGED <<tokens, prediction, predCount, aggVars, exVars, laterVars>>

Current == tags[tokenIdx + 1]
Position == TokenPositions(tokens)[tokenIdx + 1]

\* The prediction does not overlap the token (line 158 is false).
SkipToken ==
    /\ alPc = "tokens"
    /\ ~Overlaps(prediction[1], Position)
    /\ VisitToken

\* tags[token_idx] = tag (lines 159-161)
AssignTag ==
    /\ alPc = "tokens"
    /\ Overlaps(prediction[1], Position)
    /\ AssignsWithoutLooking(tokenIdx, Current)
    /\ VisitToken

\* tags[token_idx] = tag (lines 162-164)
OverwriteWithBegin ==
    /\ alPc = "tokens"
    /\ Overlaps(prediction[1], Position)
    /\ ~AssignsWithoutLooking(tokenIdx, Current)
    /\ BeginsOtherType(TagOf(prediction[1]), Current)
    /\ VisitToken

\* Neither branch is taken: the token keeps its tag.
KeepTag ==
    /\ alPc = "tokens"
    /\ Overlaps(prediction[1], Position)
    /\ ~AssignsWithoutLooking(tokenIdx, Current)
    /\ ~BeginsOtherType(TagOf(prediction[1]), Current)
    /\ VisitToken

\* return tags (line 166)
AlignReturn ==
    /\ alPc = "next"
    /\ alPc' = "returned"
    /\ UNCHANGED <<tokens, tags, prediction, predCount, tokenIdx, aggVars, exVars, laterVars>>

AlignNext ==
    \/ AlignNoPredictions
    \/ NextPrediction
    \/ SkipToken
    \/ AssignTag
    \/ OverwriteWithBegin
    \/ KeepTag
    \/ AlignReturn

SpecAlign == AlignInit /\ [][AlignNext]_vars

\* ------------------------------------------------ properties of the aligner
\* The step applies the current prediction to a token it overlaps.
AppliesToOverlappingToken ==
    /\ alPc = "tokens"
    /\ Overlaps(prediction[1], Position)
    /\ tokenIdx' = tokenIdx + 1

\* C10: when a prediction is applied to a token it overlaps, a token tagged
\* 'O' takes the incoming tag, a token with another tag is overwritten only
\* by a B- tag of a different entity type, and otherwise keeps its tag.
C10_Precedence ==
    [][AppliesToOverlappingToken =>
         tags'[tokenIdx + 1] =
             IF Current = TagO THEN TagOf(prediction[1])
             ELSE IF BeginsOtherType(TagOf(prediction[1]), Current) THEN TagOf(prediction[1])
             ELSE Current]_vars


\* -------------------------------- interactive tester: input domain
\* Most inputs collect_corrections reads before the user ends the loop.
MaxCommands == 2

\* Transcripts put under test.
WfTranscripts ==
    { <<>>,
      <<"a", "b">>,
      <<"a", "b", " ", "c", "d">>,
      <<" ", "a", "b", " ", " ", "a", "b", " ", "c", "d", " ">> }

\* data/label_map.json
LabelMap == <<TagO, <<"B", "-", "D">>, <<"I", "-", "D">>>>

\* What the user may type at the correction prompt.
UserInputs ==
    { <<"d", "o", "n", "e">>, <<" ", "D", "o", "n", "e", " ">>, <<"s", "k", "i", "p">>, <<"l", "i", "s", "t">>,
      <<"0", ":", "B", "-", "D">>, <<"1", ":", "O">>, <<"1", ":", "I", "-", "D">>, <<"2", ":", "B", "-", "D">>,
      <<"-", "1", ":", "O">>, <<"x", ":", "O">>, <<"0", " ", "B", "-", "D">>, <<"0", ":", "B", "-", "T">>, <<"0", ":", "b", "-", "d">> }

\* ------------------------------ interactive tester: NERInteractiveTester
\* _load_available_tags: the label map, or ['O'] when it cannot be read.
LoadAvailableTags(readable) == IF readable THEN LabelMap ELSE <<TagO>>

W_done == <<"d", "o", "n", "e">>
W_skip == <<"s", "k", "i", "p">>
W_list == <<"l", "i", "s", "t">>
Colon == <<":">>

\* int(idx_str): [ok, value]; ok is FALSE where int raises ValueError.
IntParse(str) ==
    LET t == Strip(str)
        signed == t # <<>> /\ t[1] \in {"-", "+"}
        ds == IF signed THEN Tail(t) ELSE t
    IN  IF ds # <<>> /\ AllDigits(ds, 0, Len(ds))
        THEN [ok |-> TRUE,
              value |-> IF signed /\ t[1] = "-" THEN 0 - IntOf(ds) ELSE IntOf(ds)]
        ELSE [ok |-> FALSE, value |-> 0]

\* user_input.split(':', 1) for an input that holds a colon.
SplitAtColon(input) ==
    LET p == SetMin({q \in 0..(Len(input) - 1) : input[q + 1] = ":"}) IN
    [idx_str |-> PySlice(input, 0, p), new_tag |-> PySlice(input, p + 1, Len(input))]

\* What collect_corrections does with one input (lines 217-262): "done",
\* "skip", "list", "format" (no colon, or int() raises), "range", "tag"
\* (not an available tag), or "accept".
CommandKind(raw, toks, avail) ==
    LET user_input == Strip(raw) IN
    IF Lower(user_input) = W_done THEN "done"
    ELSE IF Lower(user_input) = W_skip THEN "skip"
    ELSE IF Lower(user_input) = W_list THEN "list"
    ELSE IF ~Contains(user_input, Colon) THEN "format"
    ELSE LET parts == SplitAtColon(user_input)
             idx == IntParse(parts.idx_str)
         IN  IF ~idx.ok THEN "format"
             ELSE IF idx.value < 0 \/ idx.value >= Len(toks) THEN "range"
             ELSE IF parts.new_tag \notin Range(avail) /\ parts.new_tag # TagO THEN "tag"
             ELSE "accept"

\* Mutant: the new tag appended to the list instead of replacing a tag.
ApplyCorrection_Appends(raw, corrected) ==
    Append(corrected, SplitAtColon(Strip(raw)).new_tag)

\* corrected_tags[idx] = new_tag (line 249)
ApplyCorrection(raw, corrected) ==
    LET parts == SplitAtColon(Strip(raw))
        idx == IntParse(parts.idx_str).value
    IN  [corrected EXCEPT ![idx + 1] = parts.new_tag]


\* collect_corrections over the inputs the user types, the last of which ends
\* the loop: the list it returns.
RECURSIVE CollectFrom(_, _, _, _, _)
CollectFrom(toks, predicted, corrected, avail, inputs) ==
    LET kind == CommandKind(Head(inputs), toks, avail) IN
    IF inputs = <<>> \/ kind = "done" THEN corrected
    ELSE IF kind = "skip" THEN predicted
    ELSE IF kind = "accept"
    THEN CollectFrom(toks, predicted, ApplyCorrection(Head(inputs), corrected), avail,
                     Tail(inputs))
    ELSE CollectFrom(toks, predicted, corrected, avail, Tail(inputs))

CollectCorrections(toks, predicted, avail, inputs) ==
    CollectFrom(toks, predicted, predicted, avail, inputs)

\* Mutant: only an empty list is refused, not a difference in length.
SaveRejects_EmptyOnly(toks, tgs) == toks = <<>> \/ tgs = <<>>

\* ---------------------------------------- save_correction (lines 287-343)
\* if not tokens or not corrected_tags / if len(tokens) != len(corrected_tags)
SaveRejects(toks, tgs) == toks = <<>> \/ tgs = <<>> \/ Len(toks) # Len(tgs)

\* invalid_tags = [tag for tag in corrected_tags if tag not in valid_tags]
InvalidTags(tgs, valid) ==
    LET unknown(tag) == tag \notin Range(valid) IN SelectSeq(tgs, unknown)

\* The JSONL record (lines 317-324); metadata is None or Some(dict).
CorrectionRecord(toks, tgs, metadata) ==
    IF metadata # None
    THEN [tokens |-> toks, tags |-> tgs, metadata |-> metadata[1]]
    ELSE [tokens |-> toks, tags |-> tgs]

\* save_correction as a function of its arguments, of the tags
\* _load_available_tags returns, of the user's answer to "Continue anyway?" and of the write
\* succeeding: the file afterwards and the value returned.
SaveCorrection(file, toks, tgs, metadata, valid, confirm, writeOk) ==
    IF SaveRejects(toks, tgs) THEN [file |-> file, returned |-> FALSE]
    ELSE IF InvalidTags(tgs, valid) # <<>> /\ ~confirm
    THEN [file |-> file, returned |-> FALSE]
    ELSE IF ~writeOk THEN [file |-> file, returned |-> FALSE]
    ELSE [file |-> Append(file, CorrectionRecord(toks, tgs, metadata)), returned |-> TRUE]


\* ------------------------------------------- interactive tester: state
notWf == <<aggVars, exVars, alVars, svVars, vlVars, fcVars, ccVars, lastVars>>

WorkflowInit ==
    /\ AggIdle /\ ExtractIdle /\ AlignIdle
    /\ SaversIdle /\ ValidateIdle /\ FactoryIdle /\ ConcurrentIdle /\ LastIdle
    /\ wfTranscript \in WfTranscripts
    /\ wfTokens = <<>>
    /\ predictedTags = <<>>
    /\ correctedTags = <<>>
    /\ availableTags = <<>>
    /\ commands = 0
    /\ correctionsFile = <<>>
    /\ wfPc = "start"

\* Raw prediction lists _get_raw_predictions may return.
RawPredictionLists == UNION {[1..n -> AlignPool] : n \in 0..MaxAlignPreds}

\* extract_and_display finds no NER model: test_and_correct returns False
\* (lines 70-72, 364-366).
TesterUnavailable ==
    /\ wfPc = "start"
    /\ wfPc' = "returned"
    /\ UNCHANGED <<wfTranscript, wfTokens, predictedTags, correctedTags, availableTags,
                   commands, correctionsFile, notWf>>

\* The transcript has no token: test_and_correct returns False (lines 364-366).
ExtractNoTokens ==
    /\ wfPc = "start"
    /\ Split(wfTranscript) = <<>>
    /\ wfTokens' = <<>>
    /\ \E raw \in RawPredictionLists :
           predictedTags' = AlignPredictionsToTokens(<<>>, raw)
    /\ wfPc' = "returned"
    /\ UNCHANGED <<wfTranscript, correctedTags, availableTags, commands, correctionsFile,
                   notWf>>

\* extract_and_display returns tokens and tags and collect_corrections starts
\* on a copy of the tags (lines 75-84, 206-213).
ExtractAndDisplay ==
    /\ wfPc = "start"
    /\ Split(wfTranscript) # <<>>
    /\ wfTokens' = Split(wfTranscript)
    /\ \E raw \in RawPredictionLists :
           predictedTags' = AlignPredictionsToTokens(Split(wfTranscript), raw)
    /\ correctedTags' = predictedTags'
    /\ \E readable \in BOOLEAN : availableTags' = LoadAvailableTags(readable)
    /\ wfPc' = "correcting"
    /\ UNCHANGED <<wfTranscript, commands, correctionsFile, notWf>>

\* The user types an input of the given kind that keeps the loop going.
Typed(raw, kind) ==
    /\ wfPc = "correcting"
    /\ commands < MaxCommands
    /\ CommandKind(raw, wfTokens, availableTags) = kind
    /\ commands' = commands + 1

\* 'list', a malformed input, an index out of range, an unavailable tag:
\* the loop continues with the tags as they are.
CommandList ==
    /\ \E raw \in UserInputs : Typed(raw, "list")
    /\ UNCHANGED <<wfTranscript, wfTokens, predictedTags, correctedTags, availableTags,
                   correctionsFile, wfPc, notWf>>

CommandBadFormat ==
    /\ \E raw \in UserInputs : Typed(raw, "format")
    /\ UNCHANGED <<wfTranscript, wfTokens, predictedTags, correctedTags, availableTags,
                   correctionsFile, wfPc, notWf>>

CommandOutOfRange ==
    /\ \E raw \in UserInputs : Typed(raw, "range")
    /\ UNCHANGED <<wfTranscript, wfTokens, predictedTags, correctedTags, availableTags,
                   correctionsFile, wfPc, notWf>>

CommandInvalidTag ==
    /\ \E raw \in UserInputs : Typed(raw, "tag")
    /\ UNCHANGED <<wfTranscript, wfTokens, predictedTags, correctedTags, availableTags,
                   correctionsFile, wfPc, notWf>>

\* An accepted correction (lines 248-257).
CommandAccept ==
    /\ \E raw \in UserInputs :
           /\ Typed(raw, "accept")
           /\ correctedTags' = ApplyCorrection(raw, correctedTags)
    /\ UNCHANGED <<wfTranscript, wfTokens, predictedTags, availableTags, correctionsFile,
                   wfPc, notWf>>

\* 'done': the loop ends and the corrected list is returned (lines 219-220, 270).
CommandDone ==
    /\ wfPc = "correcting"
    /\ \E raw \in UserInputs : CommandKind(raw, wfTokens, availableTags) = "done"
    /\ wfPc' = "collected"
    /\ UNCHANGED <<wfTranscript, wfTokens, predictedTags, correctedTags, availableTags,
                   commands, correctionsFile, notWf>>

\* 'skip': the predicted list is returned (lines 221-223).
CommandSkip ==
    /\ wfPc = "correcting"
    /\ \E raw \in UserInputs : CommandKind(raw, wfTokens, availableTags) = "skip"
    /\ correctedTags' = predictedTags
    /\ wfPc' = "collected"
    /\ UNCHANGED <<wfTranscript, wfTokens, predictedTags, availableTags, commands,
                   correctionsFile, notWf>>

\* The user does not answer 'yes' to "Save these corrections" (lines 373-377).
SaveSkipped ==
    /\ wfPc = "collected"
    /\ wfPc' = "returned"
    /\ UNCHANGED <<wfTranscript, wfTokens, predictedTags, correctedTags, availableTags,
                   commands, correctionsFile, notWf>>

\* The metadata test_and_correct builds (lines 380-384).
WorkflowMetadata == Some("interactive_testing")

\* save_correction(tokens, corrected_tags, metadata) called by the workflow, the
\* user answering confirm to "Continue anyway?" and the write succeeding or not.
WorkflowSave(confirm, writeOk) ==
    SaveCorrection(correctionsFile, wfTokens, correctedTags, WorkflowMetadata,
                   availableTags, confirm, writeOk)

\* The record is appended (lines 326-337).
WorkflowSaves ==
    /\ wfPc = "collected"
    /\ \E confirm \in BOOLEAN :
           /\ WorkflowSave(confirm, TRUE).returned
           /\ correctionsFile' = WorkflowSave(confirm, TRUE).file
    /\ wfPc' = "returned"
    /\ UNCHANGED <<wfTranscript, wfTokens, predictedTags, correctedTags, availableTags,
                   commands, notWf>>

\* save_correction returns False: the user declines the invalid tags, or the
\* write fails (lines 311-315, 339-342).
WorkflowSaveFails ==
    /\ wfPc = "collected"
    /\ \E confirm, writeOk \in BOOLEAN :
           /\ ~WorkflowSave(confirm, writeOk).returned
           /\ correctionsFile' = WorkflowSave(confirm, writeOk).file
    /\ wfPc' = "returned"
    /\ UNCHANGED <<wfTranscript, wfTokens, predictedTags, correctedTags, availableTags,
                   commands, notWf>>

WorkflowNext ==
    \/ TesterUnavailable
    \/ ExtractNoTokens
    \/ ExtractAndDisplay
    \/ CommandList
    \/ CommandBadFormat
    \/ CommandOutOfRange
    \/ CommandInvalidTag
    \/ CommandAccept
    \/ CommandDone
    \/ CommandSkip
    \/ SaveSkipped
    \/ WorkflowSaves
    \/ WorkflowSaveFails

SpecWorkflow == WorkflowInit /\ [][WorkflowNext]_vars

\* -------------------------------------- properties of the interactive tester
\* C11: throughout the correction workflow there is one tag per token: in
\* what the aligner returns, in the list the correction commands edit, after
\* any accepted, rejected, 'list', 'done' or 'skip' input, and in every
\* record the workflow hands to save_correction and gets written.
C11_OneTagPerToken ==
    /\ Len(predictedTags) = Len(wfTokens)
    /\ Len(correctedTags) = Len(wfTokens)
    /\ \A i \in DOMAIN correctionsFile :
           Len(correctionsFile[i].tokens) = Len(correctionsFile[i].tags)

\* A run in which two inputs were read, a correction was accepted and the
\* record was saved.
C11_Witness ==
    /\ wfPc = "returned"
    /\ commands = 2
    /\ correctedTags # predictedTags
    /\ Len(wfTokens) >= 2
    /\ correctionsFile # <<>>
    /\ correctionsFile[1].tags = correctedTags

\* C12: every tag the aligner returns is 'O' or a member of the label
\* vocabulary.
C12_AlignerTagsInVocabulary ==
    \A i \in DOMAIN predictedTags :
        predictedTags[i] = TagO \/ predictedTags[i] \in Range(LabelMap)

\* ------------------------------------------------ the three savers: inputs
\* Records a file may hold before the model stops calling the savers.
MaxRecords == 2

\* Token and tag lists passed to save_correction.
SvTokenLists ==
    { <<>>,
      <<<<"a", "b">>>>,
      <<<<"a", "b">>, <<"c", "d">>>> }
SvTagLists ==
    { <<>>,
      <<<<"O">>>>,
      <<<<"B", "-", "X">>>>,
      <<<<"O">>, <<"B", "-", "D">>>>,
      <<<<"B", "-", "D">>, <<"B", "-", "X">>>>,
      <<<<"O">>, <<"O">>, <<"I", "-", "D">>>> }

\* Transcript and tag strings posted to the two label savers.
SvTranscripts ==
    { <<>>,
      <<" ", " ">>,
      <<" ", "a", "b", " ">>,
      <<"a", "b", " ", " ", "c", "d">> }
SvTagStrings ==
    { <<>>,
      <<" ", "O", " ">>,
      <<"O", " ", "B", "-", "D">>,
      <<"B", "-", "X", " ", " ", "O", " ", " ", "O">> }

\* The result of a saver, as the caller sees it.
R_True == "True"
R_False == "False"

\* save_labels (backend/api/views.py) as a function of the request, of
\* train.jsonl and of the write succeeding: the status of the response and
\* the file afterwards.
SaveLabels(file, post, bodyOk, transcript0, tagsStr0, writeOk) ==
    LET text == Strip(transcript0)
        tags_str == Strip(tagsStr0)
        toks == IF text # <<>> THEN Split(Strip(text)) ELSE <<>>
        tgs == IF tags_str # <<>> THEN Split(tags_str) ELSE <<>>
    IN  IF ~post THEN [file |-> file, returned |-> "405"]
        ELSE IF ~bodyOk THEN [file |-> file, returned |-> "500"]
        ELSE IF text = <<>> THEN [file |-> file, returned |-> "400"]
        ELSE IF Len(toks) # Len(tgs) THEN [file |-> file, returned |-> "400"]
        ELSE IF ~writeOk THEN [file |-> file, returned |-> "500"]
        ELSE [file |-> Append(file, [tokens |-> toks, tags |-> tgs]), returned |-> "200"]

\* tokenize (app/gradio_app.py:57-58)
Tokenize(text) == IF Strip(text) # <<>> THEN Split(Strip(text)) ELSE <<>>

\* save_labels_from_strings (app/gradio_app.py) as a function of its
\* arguments, of train.jsonl and of makedirs and the write succeeding.
SaveLabelsFromStrings(file, transcript0, tagsStr0, dirOk, writeOk) ==
    LET toks == Tokenize(transcript0)
        tgs == IF Strip(tagsStr0) # <<>> THEN Split(Strip(tagsStr0)) ELSE <<>>
    IN  IF ~dirOk THEN [file |-> file, returned |-> "raised"]
        ELSE IF toks = <<>> THEN [file |-> file, returned |-> "empty"]
        ELSE IF Len(tgs) # Len(toks) THEN [file |-> file, returned |-> "invalid"]
        ELSE IF ~writeOk THEN [file |-> file, returned |-> "raised"]
        ELSE [file |-> Append(file, [tokens |-> toks, tags |-> tgs]), returned |-> "added"]

\* ------------------------------------------------- the three savers: state
notSv == <<aggVars, exVars, alVars, wfVars, vlVars, fcVars, ccVars, lastVars>>

SaveInit ==
    /\ AggIdle /\ ExtractIdle /\ AlignIdle
    /\ WorkflowIdle /\ ValidateIdle /\ FactoryIdle /\ ConcurrentIdle /\ LastIdle
    /\ SaversIdle

\* The model stops calling once MaxRecords records are on disk.
RoomLeft == Len(svCorrections) + Len(svLabels) < MaxRecords

\* One call of save_correction(tokens, corrected_tags, metadata).
CallSaveCorrection ==
    /\ RoomLeft
    /\ \E toks \in SvTokenLists, tgs \in SvTagLists, metadata \in {None, WorkflowMetadata},
          readable, confirm, writeOk \in BOOLEAN :
           LET out == SaveCorrection(svCorrections, toks, tgs, metadata,
                                     LoadAvailableTags(readable), confirm, writeOk)
           IN  /\ svCall' = [fn |-> "save_correction", tokens |-> toks, tags |-> tgs]
               /\ svCorrections' = out.file
               /\ svResult' = IF out.returned THEN R_True ELSE R_False
    /\ UNCHANGED <<svLabels, notSv>>

\* One request to the save_labels endpoint.
CallSaveLabels ==
    /\ RoomLeft
    /\ \E transcript0 \in SvTranscripts, tagsStr0 \in SvTagStrings,
          post, bodyOk, writeOk \in BOOLEAN :
           LET out == SaveLabels(svLabels, post, bodyOk, transcript0, tagsStr0, writeOk)
           IN  /\ svCall' = [fn |-> "save_labels", tokens |-> Split(transcript0),
                             tags |-> Split(tagsStr0)]
               /\ svLabels' = out.file
               /\ svResult' = out.returned
    /\ UNCHANGED <<svCorrections, notSv>>

\* One call of save_labels_from_strings(transcript, tags_str).
CallSaveLabelsFromStrings ==
    /\ RoomLeft
    /\ \E transcript0 \in SvTranscripts, tagsStr0 \in SvTagStrings,
          dirOk, writeOk \in BOOLEAN :
           LET out == SaveLabelsFromStrings(svLabels, transcript0, tagsStr0, dirOk, writeOk)
           IN  /\ svCall' = [fn |-> "save_labels_from_strings", tokens |-> Split(transcript0),
                             tags |-> Split(tagsStr0)]
               /\ svLabels' = out.file
               /\ svResult' = out.returned
    /\ UNCHANGED <<svCorrections, notSv>>

SaveNext ==
    \/ CallSaveCorrection
    \/ CallSaveLabels
    \/ CallSaveLabelsFromStrings

SpecSave == SaveInit /\ [][SaveNext]_vars

\* ---------------------------------------------- properties of the savers
\* The results by which a saver reports that the record was written.
SuccessResults == {R_True, "200", "added"}

EqualLengths(file) ==
    \A i \in DOMAIN file : Len(file[i].tokens) = Len(file[i].tags)

\* C13: a call of save_correction, save_labels or save_labels_from_strings
\* whose token count differs from its tag count returns an error result and
\* leaves both files as they were; no file ever holds a record with unequal
\* lengths.
C13_MismatchIsRefused ==
    /\ [](EqualLengths(svCorrections) /\ EqualLengths(svLabels))
    /\ [][Len(svCall'.tokens) # Len(svCall'.tags)
            => /\ svCorrections' = svCorrections
               /\ svLabels' = svLabels
               /\ svResult' \notin SuccessResults]_vars

\* A saver has refused two non-empty lists of different lengths while a
\* record was already on disk.
C13_Witness ==
    /\ svCall # <<>>
    /\ Len(svCall.tokens) # Len(svCall.tags)
    /\ svCall.tokens # <<>> /\ svCall.tags # <<>>
    /\ svResult \in {R_False, "400", "invalid"}
    /\ svCorrections # <<>>

\* C15: save_correction never appends a record with a tag that is absent
\* from the label vocabulary, whatever the user answers.
C15_NoUnknownTagSaved ==
    \A i \in DOMAIN svCorrections :
        \A j \in DOMAIN svCorrections[i].tags :
            svCorrections[i].tags[j] \in Range(LabelMap)

\* -------------------------------------------------- validate_corrections
\* Lines of a corrections file the model validates.
MaxFileLines == 3

\* The lines a corrections file may hold: ok is false for a line that does
\* not parse or lacks 'tokens' or 'tags'.
FileLines ==
    { [ok |-> TRUE, tokens |-> <<<<"a", "b">>>>, tags |-> <<<<"O">>>>],
      [ok |-> TRUE, tokens |-> <<<<"a", "b">>, <<"c", "d">>>>, tags |-> <<<<"B", "-", "D">>, <<"I", "-", "D">>>>],
      [ok |-> TRUE, tokens |-> <<<<"a", "b">>, <<"c", "d">>>>, tags |-> <<<<"B", "-", "X">>, <<"O">>>>],
      [ok |-> TRUE, tokens |-> <<<<"a", "b">>, <<"c", "d">>, <<"a", "b">>>>, tags |-> <<<<"B", "-", "X">>, <<"B", "-", "Y">>, <<"B", "-", "X">>>>],
      [ok |-> TRUE, tokens |-> <<<<"a", "b">>>>, tags |-> <<<<"O">>, <<"B", "-", "X">>>>],
      [ok |-> FALSE, tokens |-> <<>>, tags |-> <<>>] }

CorrectionFiles == UNION {[1..n -> FileLines] : n \in 0..MaxFileLines}

\* load_jsonl_file: the records of the lines that parse and have both keys.
RECURSIVE LoadJsonlFile(_)
LoadJsonlFile(lines) ==
    IF lines = <<>> THEN <<>>
    ELSE (IF lines[1].ok THEN <<[tokens |-> lines[1].tokens, tags |-> lines[1].tags]>>
          ELSE <<>>) \o LoadJsonlFile(Tail(lines))

\* valid_labels: the set of the label map, {'O'} when it cannot be read.
LoadValidLabels(readable) == IF readable THEN Range(LabelMap) ELSE {TagO}

\* Mutant: only the first offending tag is kept.
InvalidLabels_FirstOnly(tgs, valid_labels) ==
    LET bad == SelectSeq(tgs, LAMBDA tag : tag \notin valid_labels)
    IN  IF bad = <<>> THEN <<>> ELSE <<bad[1]>>

\* [tag for tag in tags if tag not in valid_labels]
InvalidLabels(tgs, valid_labels) == SelectSeq(tgs, LAMBDA tag : tag \notin valid_labels)

\* The issue recorded for a record, if any (lines 245-263); list(set(...))
\* has no defined order and is kept as a set.
MismatchIssue(idx, record) ==
    [record_idx |-> idx, issue |-> "Token-tag mismatch",
     tokens |-> Len(record.tokens), tags |-> Len(record.tags)]

InvalidTagsIssue(idx, record, valid_labels) ==
    [record_idx |-> idx, issue |-> "Invalid tags",
     invalid_tags |-> Range(InvalidLabels(record.tags, valid_labels))]

notVl == <<aggVars, exVars, alVars, wfVars, svVars, fcVars, ccVars, lastVars>>

\* vlRecords holds the lines of the file until they are loaded, the loaded
\* records afterwards.
ValidateInit ==
    /\ AggIdle /\ ExtractIdle /\ AlignIdle
    /\ WorkflowIdle /\ SaversIdle /\ FactoryIdle /\ ConcurrentIdle /\ LastIdle
    /\ vlRecords \in CorrectionFiles
    /\ vlValidLabels = {}
    /\ vlIssues = <<>>
    /\ vlValid = 0
    /\ vlPc = "start"

\* The file does not exist (lines 224-226).
ValidateFileMissing ==
    /\ vlPc = "start"
    /\ vlRecords = <<>>
    /\ vlIssues' = <<[issue |-> "File not found"]>>
    /\ vlPc' = "done"
    /\ UNCHANGED <<vlRecords, vlValidLabels, vlValid, notVl>>

\* The records and the valid labels are loaded (lines 228-238).
ValidateLoad ==
    /\ vlPc = "start"
    /\ vlRecords' = LoadJsonlFile(vlRecords)
    /\ \E readable \in BOOLEAN : vlValidLabels' = LoadValidLabels(readable)
    /\ vlPc' = "loop"
    /\ UNCHANGED <<vlIssues, vlValid, notVl>>

\* The 0-based index of the record the loop is at.
RecordIdx == Len(vlIssues) + vlValid
Record == vlRecords[RecordIdx + 1]

\* Lines 245-252.
RecordMismatch ==
    /\ vlPc = "loop" /\ RecordIdx < Len(vlRecords)
    /\ Len(Record.tokens) # Len(Record.tags)
    /\ vlIssues' = Append(vlIssues, MismatchIssue(RecordIdx, Record))
    /\ UNCHANGED <<vlRecords, vlValidLabels, vlValid, vlPc, notVl>>

\* Lines 255-262.
RecordInvalidTags ==
    /\ vlPc = "loop" /\ RecordIdx < Len(vlRecords)
    /\ Len(Record.tokens) = Len(Record.tags)
    /\ InvalidLabels(Record.tags, vlValidLabels) # <<>>
    /\ vlIssues' = Append(vlIssues, InvalidTagsIssue(RecordIdx, Record, vlValidLabels))
    /\ UNCHANGED <<vlRecords, vlValidLabels, vlValid, vlPc, notVl>>

\* Line 264.
RecordValid ==
    /\ vlPc = "loop" /\ RecordIdx < Len(vlRecords)
    /\ Len(Record.tokens) = Len(Record.tags)
    /\ InvalidLabels(Record.tags, vlValidLabels) = <<>>
    /\ vlValid' = vlValid + 1
    /\ UNCHANGED <<vlRecords, vlValidLabels, vlIssues, vlPc, notVl>>

\* Line 266.
ValidateReturn ==
    /\ vlPc = "loop" /\ RecordIdx = Len(vlRecords)
    /\ vlPc' = "done"
    /\ UNCHANGED <<vlRecords, vlValidLabels, vlIssues, vlValid, notVl>>

ValidateNext ==
    \/ ValidateFileMissing
    \/ ValidateLoad
    \/ RecordMismatch
    \/ RecordInvalidTags
    \/ RecordValid
    \/ ValidateReturn

SpecValidate == ValidateInit /\ [][ValidateNext]_vars

\* ------------------------------------- properties of validate_corrections
\* The tags of a record that are not valid labels.
Offending(record) == {record.tags[j] : j \in DOMAIN record.tags} \ vlValidLabels

\* The record has one tag per token and at least one unknown tag.
HasUnknownTag(record) ==
    Len(record.tokens) = Len(record.tags) /\ Offending(record) # {}

\* C14: once validate_corrections returns, every loaded record with equal
\* token and tag counts and at least one tag outside the valid labels has an
\* 'Invalid tags' issue under its index whose tag list is exactly the set of
\* its offending tags, and valid_records counts none of these records.
C14_UnknownTagsSurfaced ==
    vlPc = "done" /\ vlValidLabels # {} =>
        /\ \A i \in DOMAIN vlRecords :
               HasUnknownTag(vlRecords[i]) =>
                   \E k \in DOMAIN vlIssues :
                       /\ vlIssues[k].issue = "Invalid tags"
                       /\ vlIssues[k].record_idx = i - 1
                       /\ vlIssues[k].invalid_tags = Offending(vlRecords[i])
        /\ vlValid + Cardinality({i \in DOMAIN vlRecords : HasUnknownTag(vlRecords[i])})
               <= Len(vlRecords)

\* The label map was read, and a file with a valid record, a record with one
\* unknown tag and a record with two distinct unknown tags, one of them
\* twice, has been validated.
C14_Witness ==
    /\ vlPc = "done"
    /\ vlValidLabels = Range(LabelMap)
    /\ vlValid = 1
    /\ Len(vlRecords) = 3
    /\ \E i \in DOMAIN vlRecords : Cardinality(Offending(vlRecords[i])) = 1
    /\ \E i \in DOMAIN vlRecords :
           /\ Cardinality(Offending(vlRecords[i])) = 2
           /\ Len(InvalidLabels(vlRecords[i].tags, vlValidLabels)) = 3

\* ------------------------------- malformed and blank predictions in extract
\* A prediction with a label and a fragment.
WellFormed(e) ==
    /\ e.word # MissingWord
    /\ e.entity # NoneVal \/ e.entity_group # NoneVal

\* A prediction whose fragment is empty or whitespace only.
IsBlank(e) == e.word # MissingWord /\ Strip(e.word) = <<>>
NotBlank(e) == ~IsBlank(e)

\* What extract returns for a prediction list (lines 77-83).
ExtractOf(raw, t) ==
    LET agg == MergeSubwordTokens(raw, t)
    IN  IF agg.raised THEN EmptyDict ELSE DecodeEntitiesToJson(agg.spans, t)

\* The call went through the pipeline and has returned.
Extracted == exPc = "returned" /\ rawEntities # None

\* C16: the aggregated spans and the record extract returns for a prediction
\* list are those of the list with its malformed predictions (no label or no
\* fragment) removed, and a malformed prediction never makes extract give up.
C16_MalformedDropped ==
    Extracted =>
        LET clean == SelectSeq(rawEntities[1], WellFormed)
            alone == MergeSubwordTokens(clean, transcript)
        IN  /\ result = ExtractOf(clean, transcript)
            /\ ~alone.raised => mergedEntities = alone.spans

\* C20: aggregating a prediction list gives the spans of the list with its
\* empty and whitespace-only fragments removed.
C20_BlankDropped ==
    Extracted /\ result # EmptyDict =>
        mergedEntities = MergeSubwordTokens(SelectSeq(rawEntities[1], NotBlank), transcript).spans

\* ---------------------------------------- extraction calls over shared data
\* Predictions in the list two calls are handed.
MaxSharedPreds == 2

\* The calls in flight.
Calls == {1, 2}

CcTranscripts ==
    { <<" ", " ", "m", "a", "r", "y", " ", "l", "e", "e", " ", " ">>,
      <<" ", "I", "n", " ", "9", ":", "3", "0", " ", "P", "M", " ", " ">> }

CcPool ==
    { Entity("entity_group", "PERSON_SURGEON", <<"m", "a", "r", "y">>, <<2, 6>>),
      Entity("entity_group", "PERSON_SURGEON", <<"l", "e", "e">>, <<7, 10>>),
      Entity("entity_group", "TIME_IN", <<"8", ".", "1", "5", " ", "A", "M">>, <<20, 27>>),
      Entity("entity_group", "TIME_IN", MissingWord, <<28, 29>>) }

SharedLists == UNION {[1..n -> CcPool] : n \in 0..MaxSharedPreds}

\* A dict a call holds: its own object with value val, or (own = FALSE) the
\* dict at index ref of the shared prediction list.
Deref(o) == IF o.own THEN o.val ELSE sharedInputs[o.ref]

\* Mutant: the buffer is the prediction dict itself, not a copy of it.
EntityCopy_Alias(i) == [own |-> FALSE, ref |-> i, val |-> sharedInputs[i]]

\* entity.copy() (lines 132, 138): a new dict with the prediction's items.
EntityCopy(i) == [own |-> TRUE, ref |-> i, val |-> sharedInputs[i]]

\* The loop state of a call, by value.
CallState(call) ==
    [merged |-> [k \in DOMAIN call.merged |-> Deref(call.merged[k])],
     buffer |-> IF call.buffer = <<>> THEN <<>> ELSE <<Deref(call.buffer[1])>>,
     raised |-> FALSE]

\* The loop state after the body has run on the prediction the call is at.
AfterBody(call) == LoopBody(CallState(call), sharedInputs[call.idx], ccTranscript)

\* The body takes one of the two merge branches (lines 109-114, 121-128).
BodyMerges(call) ==
    /\ call.buffer # <<>>
    /\ ~AfterBody(call).raised
    /\ Len(AfterBody(call).merged) = Len(call.merged)

notCc == <<aggVars, exVars, alVars, wfVars, svVars, vlVars, fcVars, lastVars>>

ConcurrentInit ==
    /\ AggIdle /\ ExtractIdle /\ AlignIdle
    /\ WorkflowIdle /\ SaversIdle /\ ValidateIdle /\ FactoryIdle /\ LastIdle
    /\ sharedInputs \in SharedLists
    /\ givenInputs = sharedInputs
    /\ sharedDefaults = EmptyForm
    /\ ccTranscript \in CcTranscripts
    /\ ccCalls = [c \in Calls |->
                    [pc |-> "start", idx |-> 1, merged |-> <<>>, buffer |-> <<>>,
                     result |-> None, mutated |-> FALSE]]

\* The pipeline hands the call the prediction list (line 77) and the
\* aggregation starts with merged = [], buffer = None (lines 100-101).
CallBegins(c) ==
    /\ ccCalls[c].pc = "start"
    /\ ccCalls' = [ccCalls EXCEPT ![c].pc = "loop"]
    /\ UNCHANGED <<sharedInputs, givenInputs, sharedDefaults, ccTranscript, notCc>>

InLoop(c) == ccCalls[c].pc = "loop" /\ ccCalls[c].idx <= Len(sharedInputs)

\* One pass of the loop body that writes the merged word, end and score into
\* the buffer dict.
CallMerges(c) ==
    LET call == ccCalls[c]
        b == AfterBody(call).buffer[1]
    IN  /\ InLoop(c) /\ BodyMerges(call)
        /\ IF call.buffer[1].own
           THEN /\ ccCalls' = [ccCalls EXCEPT ![c].buffer = <<[call.buffer[1] EXCEPT !.val = b]>>,
                                              ![c].idx = call.idx + 1]
                /\ UNCHANGED sharedInputs
           ELSE /\ ccCalls' = [ccCalls EXCEPT ![c].idx = call.idx + 1]
                /\ sharedInputs' = [sharedInputs EXCEPT ![call.buffer[1].ref] = b]
        /\ UNCHANGED <<givenInputs, sharedDefaults, ccTranscript, notCc>>

\* One pass that appends the open buffer, if any, to merged and opens a
\* buffer on a copy of the prediction (lines 129-138).
CallOpens(c) ==
    LET call == ccCalls[c] IN
    /\ InLoop(c) /\ ~BodyMerges(call) /\ ~AfterBody(call).raised
    /\ ccCalls' = [ccCalls EXCEPT
                     ![c].merged = IF call.buffer # <<>> THEN Append(call.merged, call.buffer[1])
                                   ELSE call.merged,
                     ![c].buffer = <<EntityCopy(call.idx)>>,
                     ![c].idx = call.idx + 1]
    /\ UNCHANGED <<sharedInputs, givenInputs, sharedDefaults, ccTranscript, notCc>>

\* The body raises KeyError and extract returns {} (lines 81-83).
CallRaises(c) ==
    /\ InLoop(c) /\ AfterBody(ccCalls[c]).raised
    /\ ccCalls' = [ccCalls EXCEPT ![c].pc = "returned", ![c].result = Some(EmptyDict)]
    /\ UNCHANGED <<sharedInputs, givenInputs, sharedDefaults, ccTranscript, notCc>>

\* The list is exhausted: the buffer is flushed and the spans are decoded
\* into a new ORFormJSON, whose nested dicts and lists its default factories
\* build for this form alone (lines 140-144, 80; schema.py:14-75).
CallReturns(c) ==
    LET call == ccCalls[c]
        spans == FlushBuffer(CallState(call))
    IN  /\ call.pc = "loop" /\ call.idx > Len(sharedInputs)
        /\ ccCalls' = [ccCalls EXCEPT
                         ![c].pc = "returned",
                         ![c].result = Some(DecodeEntitiesToJson(spans, ccTranscript))]
        /\ UNCHANGED <<sharedInputs, givenInputs, sharedDefaults, ccTranscript, notCc>>

\* The caller writes into the record a call returned to it.
CallerMutates(c) ==
    /\ ccCalls[c].pc = "returned" /\ ~ccCalls[c].mutated
    /\ ccCalls[c].result # Some(EmptyDict)
    /\ ccCalls' = [ccCalls EXCEPT
                     ![c].mutated = TRUE,
                     ![c].result = Some([ccCalls[c].result[1] EXCEPT
                                           !.anesthesia.type = Append(@, <<"x">>),
                                           !.times.in = Some(<<"x">>)])]
    /\ UNCHANGED <<sharedInputs, givenInputs, sharedDefaults, ccTranscript, notCc>>

ConcurrentNext ==
    \E c \in Calls :
        \/ CallBegins(c)
        \/ CallMerges(c)
        \/ CallOpens(c)
        \/ CallRaises(c)
        \/ CallReturns(c)
        \/ CallerMutates(c)

SpecConcurrent == ConcurrentInit /\ [][ConcurrentNext]_vars

\* C17: under every interleaving of two extraction calls over the same
\* prediction list, and whatever a caller writes into a record it got back,
\* the prediction list and its dicts stay as they were given, the schema
\* defaults stay as they are, and the record each call returns is the record
\* the call returns when it runs alone.
C17_CallsIndependent ==
    /\ sharedInputs = givenInputs
    /\ sharedDefaults = EmptyForm
    /\ \A c \in Calls :
           ccCalls[c].pc = "returned" /\ ~ccCalls[c].mutated =>
               ccCalls[c].result = Some(ExtractOf(givenInputs, ccTranscript))

\* Two predictions were merged into one buffer by both calls, one call's
\* record was written to by its caller and the other call returned its
\* record.
C17_Witness ==
    /\ Len(givenInputs) = 2
    /\ \A c \in Calls :
           /\ ccCalls[c].pc = "returned"
           /\ ccCalls[c].idx = 3
           /\ ccCalls[c].merged = <<>>
           /\ ccCalls[c].buffer # <<>>
    /\ ccCalls[1].mutated /\ ~ccCalls[2].mutated
    /\ ccCalls[2].result # Some(EmptyForm)

\* --------------------------------------------------------------- NERFactory
\* Type names passed to register and create.
TypeNames ==
    { <<"c", "u", "s", "t", "o", "m">>,
      <<"C", "u", "s", "t", "o", "m">>,
      <<"C", "U", "S", "T", "O", "M">>,
      <<"s", "l", "o", "t", "-", "f", "i", "l", "l", "i", "n", "g">> }

\* A class handed to register: whether it derives from BaseNER, what
\* is_available() gives on an instance made by __new__ alone ("True",
\* "False" or "raises"), whether its constructor raises, and what
\* is_available() gives on a constructed instance.
NerClass(name, subclass, bare, ctorRaises, built) ==
    [name |-> name, subclass |-> subclass, bare |-> bare, ctorRaises |-> ctorRaises,
     built |-> built]

NerClasses ==
    { \* CustomNER of example 7: available once __init__ has set initialized
      NerClass("CustomNER", TRUE, "False", FALSE, TRUE),
      \* SlotFillingExtractor: is_available reads attributes __init__ sets
      NerClass("SlotFillingExtractor", TRUE, "raises", FALSE, TRUE),
      NerClass("SlotFillingExtractor without model", TRUE, "raises", FALSE, FALSE),
      NerClass("AlwaysAvailable", TRUE, "True", FALSE, TRUE),
      NerClass("NeverAvailable", TRUE, "False", FALSE, FALSE),
      NerClass("BrokenConstructor", TRUE, "True", TRUE, TRUE),
      NerClass("NotANer", FALSE, "True", FALSE, TRUE) }

\* cls._registry[model_type.lower()] = ner_class
RegistryPut(reg, key, ner_class) ==
    [k \in DOMAIN reg \cup {key} |-> IF k = key THEN ner_class ELSE reg[k]]

\* register: raised is TRUE for the ValueError (lines 24-26).
Register(reg, model_type, ner_class) ==
    IF ~ner_class.subclass THEN [registry |-> reg, raised |-> TRUE]
    ELSE [registry |-> RegistryPut(reg, Lower(model_type), ner_class), raised |-> FALSE]

\* create: the class an instance of which is returned, or None.
Create(reg, model_type) ==
    LET model_type_lower == Lower(model_type) IN
    IF model_type_lower \notin DOMAIN reg THEN None
    ELSE LET ner_class == reg[model_type_lower] IN
         \* temp_instance = ner_class.__new__(ner_class); is_available() (49-53)
         IF ner_class.bare = "False" THEN None
         \* instance = ner_class(config) (58, 66-68)
         ELSE IF ner_class.ctorRaises THEN None
         \* if not instance.is_available(): return None (60-62)
         ELSE IF ~ner_class.built THEN None
         ELSE Some(ner_class)

notFc == <<aggVars, exVars, alVars, wfVars, svVars, vlVars, ccVars, lastVars>>

FactoryInit ==
    /\ AggIdle /\ ExtractIdle /\ AlignIdle
    /\ WorkflowIdle /\ SaversIdle /\ ValidateIdle /\ ConcurrentIdle /\ LastIdle
    /\ FactoryIdle

\* NERFactory.register(model_type, ner_class)
RegisterCall ==
    \E model_type \in TypeNames, ner_class \in NerClasses :
        LET out == Register(registry, model_type, ner_class) IN
        /\ registry' = out.registry
        /\ fcCall' = [fn |-> "register", model_type |-> model_type]
        /\ fcResult' = [raised |-> out.raised, instance |-> None]
        /\ UNCHANGED notFc

\* NERFactory.create(model_type, config)
CreateCall ==
    \E model_type \in TypeNames :
        /\ fcCall' = [fn |-> "create", model_type |-> model_type]
        /\ fcResult' = [raised |-> FALSE, instance |-> Create(registry, model_type)]
        /\ UNCHANGED <<registry, notFc>>

FactoryNext ==
    \/ RegisterCall
    \/ CreateCall

SpecFactory == FactoryInit /\ [][FactoryNext]_vars

\* C18: create(name, config), for any letter case of a name registered with a
\* class whose constructed instances are available, returns an instance of
\* that class.
C18_RegisteredIsCreated ==
    fcCall # <<>> /\ fcCall.fn = "create" =>
        LET key == Lower(fcCall.model_type) IN
        key \in DOMAIN registry /\ ~registry[key].ctorRaises /\ registry[key].built =>
            fcResult.instance = Some(registry[key])

\* ------------------------------------------- aggregator: nothing lost
\* The k-th smallest member of a set of indices.
Nth(F, k) == CHOOSE x \in F : Cardinality({y \in F : y < x}) = k - 1

\* The last index of the k-th group when F holds the first index of every
\* group of a list of n elements.
LastOf(F, k, n) == IF k = Cardinality(F) THEN n ELSE Nth(F, k + 1) - 1

\* out is ents cut into consecutive groups, one span per group, in order:
\* each span starts where the first prediction of its group starts, ends
\* where the last one ends, and carries the label of the first.
Partitioned(out, ents) ==
    \E F \in SUBSET DOMAIN ents :
        /\ ents # <<>> => 1 \in F
        /\ Cardinality(F) = Len(out)
        /\ \A k \in DOMAIN out :
               /\ out[k].start = ents[Nth(F, k)].start
               /\ out[k].end = ents[LastOf(F, k, Len(ents))].end
               /\ LabelOf(out[k]) = LabelOf(ents[Nth(F, k)])

\* The spans the call returns if the list ends here.
OutputSoFar == IF aggPc = "done" THEN merged ELSE FlushBuffer(AggState)

\* Whenever the aggregation has not raised, its output accounts for every
\* prediction consumed.
NothingLostUnlessRaised == aggPc # "raised" => Partitioned(OutputSoFar, entities)

\* C19: for every prediction list the aggregation returns spans that cut the
\* list into consecutive groups, every prediction in exactly one group, the
\* spans in the order of their first prediction, no more spans than
\* predictions, the last buffer emitted, and no span for an empty list.
C19_NothingLost == aggPc # "raised" /\ Partitioned(OutputSoFar, entities)

\* ----------------------------------------- the decoder applied to span lists
\* Spans in the list handed to the decoder.
MaxDecodeSpans == 2

\* A span as the decoder reads it: it looks at entity_group and word only.
DecodeEntity(label, word) == Entity("entity_group", label, word, <<0, 1>>)

\* Spans the aggregation may hand over, among them all-punctuation fragments,
\* texts without a date or a digit, and the three medication groups.
DecodePool ==
    { DecodeEntity("TIME_OUT", <<"-">>),
      DecodeEntity("TIME_OUT", <<"5", ".", "3", "0", " ", "P", "M">>),
      DecodeEntity("SPECIMEN", <<"-", "-">>),
      DecodeEntity("SPECIMEN", <<"f", "r", "o", "z", "e", "n", " ", "c", "u", "l", "t", "u", "r", "e", " ", "f", "r", "o", "z", "e", "n">>),
      DecodeEntity("ANES_TYPE", <<"S", "p", "i", "n", "a", "l", " ", "g", "e", "n", "e", "r", "a", "l">>),
      DecodeEntity("DRUG", <<"a", "s", "p", "i", "r", "i", "n">>),
      DecodeEntity("DRUG", <<".">>),
      DecodeEntity("DOSE", <<"x", " ", "2", ".", "5", "0", " ", "o", "r", " ", "3">>),
      DecodeEntity("DOSE", <<"s", "o", "m", "e">>),
      DecodeEntity("UNIT", <<"m", " ", "#", "#", "g">>),
      DecodeEntity("DATE", <<"3", "/", "4", "/", "2", "0", "2", "5">>),
      DecodeEntity("DATE", <<"s", "o", "o", "n">>),
      DecodeEntity("BP_SYS", <<"b", "p", " ", "1", "2", "0", " ", "o", "v", "e", "r", " ", "8", "0">>),
      DecodeEntity("HR", <<"f", "a", "s", "t">>),
      DecodeEntity("BP_DIA", <<"8", "0", ".">>),
      DecodeEntity("SPO2", <<"n", "/", "a">>) }

DecodeLists == UNION {[1..n -> DecodePool] : n \in 0..MaxDecodeSpans}

DecodeTranscripts ==
    { <<>>,
      <<" ", "I", "n", " ", "9", ":", "3", "0", " ", "P", "M", " ", " ">> }

notDc == <<aggVars, exVars, alVars, wfVars, svVars, vlVars, fcVars, ccVars,
           ruVars, trVars, clVars, mgVars>>

DecodeInit ==
    /\ AggIdle /\ ExtractIdle /\ AlignIdle
    /\ WorkflowIdle /\ SaversIdle /\ ValidateIdle /\ FactoryIdle /\ ConcurrentIdle
    /\ RulesIdle /\ TrainingIdle /\ CollectIdle /\ MergeIdle
    /\ dcEntities \in DecodeLists
    /\ dcTranscript \in DecodeTranscripts
    /\ dcResult = None

\* decode_entities_to_json(entities, transcript) returns its record.
DecodeCall ==
    /\ dcResult = None
    /\ dcResult' = Some(DecodeEntitiesToJson(dcEntities, dcTranscript))
    /\ UNCHANGED <<dcEntities, dcTranscript, notDc>>

DecodeNext == DecodeCall

SpecDecode == DecodeInit /\ [][DecodeNext]_vars

\* ------------------------------------------------ properties of the decoder
\* The record the call returned.
Decoded == dcResult[1]

\* The labels of the spans handed over.
LabelsGiven == {dcEntities[i].entity_group : i \in DOMAIN dcEntities}

\* The label has spans and their join is empty.
Degenerate(label) ==
    InSpans(dcEntities, label) /\ JoinClean(SpanWords(dcEntities, label)) = <<>>

KeepsSomething(e) == ~Degenerate(e.entity_group)

\* C21: the record decoded from a span list is the record decoded from the
\* list without the groups whose join is empty.
C21_DegenerateIsAbsent ==
    dcResult # None =>
        Decoded = DecodeEntitiesToJson(SelectSeq(dcEntities, KeepsSomething), dcTranscript)


\* The fragments the list carries under a label, in list order.
FragmentsOf(label) ==
    LET under(e) == e.entity_group = label
        hits == SelectSeq(dcEntities, under)
    IN  [i \in DOMAIN hits |-> hits[i].word]

\* A DRUG group is present and its joined name is not empty.
DrugNamed == \E i \in DOMAIN dcEntities :
    dcEntities[i].entity_group = "DRUG" /\ HasAlnum(dcEntities[i].word)

\* C22: the record holds at most one medication entry; it holds one exactly
\* when a DRUG group with a non-empty joined name is present, so DOSE or UNIT
\* spans alone create none; the entry's dose is the first numeric literal of
\* the DOSE group, or unset, and its unit is the joined UNIT text without
\* continuation markers, or unset when that is empty.
C22_OneMedication ==
    dcResult # None =>
        LET meds == Decoded.medications
            unitText == Strip(RemoveAll(JoinClean(FragmentsOf("UNIT")), Marker))
        IN  /\ Len(meds) <= 1
            /\ Len(meds) = 1 <=> DrugNamed
            /\ Len(meds) = 1 =>
                /\ meds[1].name = JoinClean(FragmentsOf("DRUG"))
                /\ meds[1].dose = FirstFloat(JoinClean(FragmentsOf("DOSE")))
                /\ meds[1].unit = IF unitText = <<>> THEN None ELSE Some(unitText)

\* A named DRUG span with a DOSE span: one entry, with its dose.
C22_Witness ==
    /\ dcResult # None
    /\ DrugNamed /\ "DOSE" \in LabelsGiven
    /\ Len(Decoded.medications) = 1
    /\ Decoded.medications[1].dose # None

\* The joined, lower-cased text of a label's spans.
JoinedLower(label) == Lower(JoinClean(FragmentsOf(label)))

NoDuplicates(s) == \A i, j \in DOMAIN s : s[i] = s[j] => i = j

\* s lists exactly the vocabulary words the label's text mentions.
ListsMentioned(s, label, vocabulary) ==
    /\ NoDuplicates(s)
    /\ {s[i] : i \in DOMAIN s} =
           {vocabulary[k] : k \in {n \in DOMAIN vocabulary :
                                     /\ label \in LabelsGiven
                                     /\ Contains(JoinedLower(label), vocabulary[n])}}

\* s is in the order of first mention in the label's text.
InTextOrder(s, label) ==
    \A i, j \in DOMAIN s :
        i < j => FirstSeen(JoinedLower(label), s[i]) < FirstSeen(JoinedLower(label), s[j])

\* The place of a word in a vocabulary.
PlaceIn(vocabulary, word) == CHOOSE k \in DOMAIN vocabulary : vocabulary[k] = word

\* s is in the order of the vocabulary.
InVocabularyOrder(s, vocabulary) ==
    \A i, j \in DOMAIN s : i < j => PlaceIn(vocabulary, s[i]) < PlaceIn(vocabulary, s[j])

\* The specimen flag is set exactly when the list has a SPECIMEN span.
SentIffSpecimen == Decoded.specimen.sent <=> "SPECIMEN" \in LabelsGiven

\* C23 as stated: the anesthesia type list and the specimen type list have no
\* duplicates and list the recognised words in the order they are first seen
\* in the joined span text; the specimen flag is set exactly when a SPECIMEN
\* group is present.
C23_FirstSeenOrder ==
    dcResult # None =>
        /\ ListsMentioned(Decoded.anesthesia.type, "ANES_TYPE", AnesthesiaTypes)
        /\ InTextOrder(Decoded.anesthesia.type, "ANES_TYPE")
        /\ ListsMentioned(Decoded.specimen.type, "SPECIMEN", SpecimenTypes)
        /\ InTextOrder(Decoded.specimen.type, "SPECIMEN")
        /\ SentIffSpecimen

\* C23 amended: the two lists have no duplicates and list the recognised words
\* the joined span text mentions in the order of the fixed vocabulary; the
\* specimen flag is set exactly when a SPECIMEN group is present.
C23_VocabularyOrder ==
    dcResult # None =>
        /\ ListsMentioned(Decoded.anesthesia.type, "ANES_TYPE", AnesthesiaTypes)
        /\ InVocabularyOrder(Decoded.anesthesia.type, AnesthesiaTypes)
        /\ ListsMentioned(Decoded.specimen.type, "SPECIMEN", SpecimenTypes)
        /\ InVocabularyOrder(Decoded.specimen.type, SpecimenTypes)
        /\ SentIffSpecimen

\* A text naming two techniques against the vocabulary's order, and a specimen
\* text naming a kind twice, were decoded.
C23_Witness ==
    /\ dcResult # None
    /\ Len(Decoded.anesthesia.type) = 2
    /\ ~InTextOrder(Decoded.anesthesia.type, "ANES_TYPE")
    /\ Len(Decoded.specimen.type) = 2
    /\ Decoded.specimen.sent


\* The vitals and the label each is read from.
VitalLabels ==
    { <<"bp_systolic", "BP_SYS">>, <<"bp_diastolic", "BP_DIA">>,
      <<"heart_rate", "HR">>, <<"spo2", "SPO2">> }

VitalOf(form, field) ==
    CASE field = "bp_systolic" -> form.vitals.bp_systolic
      [] field = "bp_diastolic" -> form.vitals.bp_diastolic
      [] field = "heart_rate" -> form.vitals.heart_rate
      [] field = "spo2" -> form.vitals.spo2

HasDigit(s) == \E i \in DOMAIN s : IsDigit(s[i])

\* v is the integer written by the first digit run of s.
IsFirstIntegerOf(v, s) ==
    \E a, b \in DOMAIN s :
        /\ a <= b
        /\ \A i \in 1..(a - 1) : ~IsDigit(s[i])
        /\ \A i \in a..b : IsDigit(s[i])
        /\ b = Len(s) \/ ~IsDigit(s[b + 1])
        /\ v = IntOf(SubSeq(s, a, b))

\* The joined text of the DATE spans is one the date parser reads.
DateParsable ==
    "DATE" \in LabelsGiven /\ ~DateutilParse(JoinClean(FragmentsOf("DATE"))).raised

\* C26: the call returns a record; its date is unset unless the joined DATE
\* text is a calendar date the parser reads; each vital is unset when its
\* joined text has no digit, and is otherwise the first integer of that text.
C26_UnparsableLeftUnset ==
    dcResult # None =>
        /\ Decoded.date # None <=> DateParsable
        /\ \A fl \in VitalLabels :
               LET value == VitalOf(Decoded, fl[1])
                   text == JoinClean(FragmentsOf(fl[2]))
               IN  IF HasDigit(text)
                   THEN value # None /\ IsFirstIntegerOf(value[1], text)
                   ELSE value = None

\* A DATE text the parser rejects and a vital text without a digit were decoded.
C26_Witness ==
    /\ dcResult # None
    /\ "DATE" \in LabelsGiven /\ ~DateParsable /\ Decoded.date = None
    /\ "HR" \in LabelsGiven /\ Decoded.vitals.heart_rate = None


\* --------------------------------------- the rule engine applied to transcripts
\* Phrases a transcript is put together from.
MaxPhrases == 2

\* Surgeon markers in their three spellings, names with a title, a hyphen and
\* a digit, stop words, and times in every form on either side of a keyword.
RulePhrases ==
    { <<"s", "u", "r", "g", "e", "o", "n", " ", "1", " ", "d", "r", " ", "k", "i", "m">>,
      <<"S", "u", "r", "g", "e", "o", "n", " ", "t", "w", "o", " ", "l", "e", "e", "-", "y", "u">>,
      <<"f", "i", "r", "s", "t", " ", "s", "u", "r", "g", "e", "o", "n">>,
      <<"s", "e", "o", "-", "i", "n">>,
      <<"d", "o", "c", "t", "o", "r", " ", "l", "e", "e", " ", "3", "r", "d">>,
      <<"e", "n", "d">>,
      <<"i", "n", " ", "9", "3", "0", " ", "p", "m">>,
      <<"0", "5", "3", "0", " ", "A", "M", " ", "i", "n">>,
      <<"9", "3", "0", " ", "p", "m">>,
      <<"0", "5", "3", "0", " ", "A", "M">>,
      <<"0", "9", ":", "0", "5", " ", "p", ".", "m", ".">>,
      <<"o", "u", "t", " ", "1", "2", ":", "3", "0", "a", "m">>,
      <<"9", ":", "0", "5", " ", "p", "m">>,
      <<"i", "n">>,
      <<"1", "1", "5", "p", "m">> }

\* The transcripts: up to MaxPhrases phrases separated by single spaces.
RuleTexts == {Join(ps) : ps \in UNION {[1..n -> RulePhrases] : n \in 0..MaxPhrases}}

notRu == <<aggVars, exVars, alVars, wfVars, svVars, vlVars, fcVars, ccVars,
           dcVars, trVars, clVars, mgVars>>

RulesInit ==
    /\ AggIdle /\ ExtractIdle /\ AlignIdle
    /\ WorkflowIdle /\ SaversIdle /\ ValidateIdle /\ FactoryIdle /\ ConcurrentIdle
    /\ DecodeIdle /\ TrainingIdle /\ CollectIdle /\ MergeIdle
    /\ ruText \in RuleTexts
    /\ ruResult = None

Returns(call, value) ==
    /\ ruResult = None
    /\ ruResult' = Some([call |-> call, value |-> value])
    /\ UNCHANGED <<ruText, notRu>>

\* extract_surgeons_from_text(t)
SurgeonsCall == Returns("surgeons", ExtractSurgeonsFromText(ruText))

\* extract_in_time_from_text(t)
InTimeCall == Returns("in", ExtractInTimeFromText(ruText))

\* extract_out_time_from_text(t)
OutTimeCall == Returns("out", ExtractOutTimeFromText(ruText))

\* normalize_time_simple(raw)
NormalizeCall == Returns("normalize", NormalizeTimeSimple(ruText))

RulesNext == SurgeonsCall \/ InTimeCall \/ OutTimeCall \/ NormalizeCall

SpecRules == RulesInit /\ [][RulesNext]_vars

Returned(call) == ruResult # None /\ ruResult[1].call = call


\* ------------------------------------------------ properties of the rule engine
\* The text the surgeon rule reads: cleaned, lower-cased, with the spelled-out
\* markers written as 'surgeon 1' and 'surgeon 2'.
SurgeonText == NormalizeSurgeonPhrases(Lower(CleanTranscript(ruText)))

\* The words of that text.
SurgeonWords == Split(SurgeonText)

\* A 'surgeon k' marker stands at word i.
MarkerAtWord(i, k) ==
    /\ i + 1 <= Len(SurgeonWords)
    /\ SurgeonWords[i] = W_surgeon
    /\ SurgeonWords[i + 1] = <<Digits[k + 1]>>

\* The word ends a name: a stop word or the start of a surgeon marker.
IsStopWord(w) == w \in {W_in, W_out, W_end, W_surgeon}

\* The name of slot k as the claim describes it: the words after the first
\* marker up to the next stop word, less a leading title, of which the tokens
\* of letters and hyphens are kept; None without a marker or a token.
NameFromWords(k) ==
    LET at == {i \in DOMAIN SurgeonWords : MarkerAtWord(i, k)} IN
    IF at = {} THEN None
    ELSE LET first == SetMin(at) + 2
             stops == {j \in first..Len(SurgeonWords) : IsStopWord(SurgeonWords[j])}
             last == IF stops = {} THEN Len(SurgeonWords) ELSE SetMin(stops) - 1
             after == SubSeq(SurgeonWords, first, last)
             named == IF after # <<>> /\ Head(after) \in {W_dr, W_doctor}
                      THEN Tail(after) ELSE after
             kept == SelectSeq(named, IsNameToken)
         IN  IF kept = <<>> THEN None ELSE Some(Join(kept))

\* C24: for each slot the name returned is made of the words between the
\* first marker of the slot and the next stop word, surgeon marker or the end
\* of the text, without a leading title and keeping only the tokens of letters
\* and hyphens; it is None when there is no marker or no token is left.
C24_NameFromFollowingWords ==
    Returned("surgeons") =>
        /\ ruResult[1].value.surgeon_1 = NameFromWords(1)
        /\ ruResult[1].value.surgeon_2 = NameFromWords(2)


\* The time text as the normaliser first rewrites it (lines 119-120): trimmed,
\* lower-cased, dots removed, runs of spaces collapsed.
RawTime == SubRuns(RemoveAll(Lower(Strip(ruText)), <<".">>), Spaces, FALSE)

\* The text is n digits, then `sep`, then am or pm, and nothing else.
IsRunForm(s, n, sep) ==
    /\ Len(s) = n + Len(sep) + 2
    /\ \A i \in 1..n : IsDigit(s[i])
    /\ SubSeq(s, n + 1, n + Len(sep)) = sep
    /\ SubSeq(s, Len(s) - 1, Len(s)) \in Meridiems

\* The text is h digits, a colon, two digits, a space, then am or pm.
IsColonForm(s, h) ==
    /\ Len(s) = h + 6
    /\ \A i \in 1..h : IsDigit(s[i])
    /\ s[h + 1] = ":"
    /\ IsDigit(s[h + 2]) /\ IsDigit(s[h + 3])
    /\ s[h + 4] = " "
    /\ SubSeq(s, h + 5, h + 6) \in Meridiems

\* The hour an integer of one or two digits is written as.
HourOf(ds) == IF Len(ds) = 2 /\ ds[1] = "0" THEN SubSeq(ds, 2, 2) ELSE ds

\* The last two characters: am or pm.
MeridiemOf(s) == SubSeq(s, Len(s) - 1, Len(s))

\* C25: a run of three digits d1d2d3 before am|pm is normalised to
\* 'd1:d2d3 am|pm', a run of four digits to 'H:d3d4 am|pm' with H the value of
\* d1d2 without leading zero, and a time 'H:MM am|pm' is returned as it is but
\* for a leading zero of the hour; the minutes keep their two digits.
C25_DigitRunsSplitByLength ==
    Returned("normalize") =>
        LET s == RawTime
            out == ruResult[1].value
        IN  /\ \A sep \in {<<>>, <<" ">>} :
                /\ IsRunForm(s, 3, sep) =>
                       out = <<s[1], ":", s[2], s[3], " ">> \o MeridiemOf(s)
                /\ IsRunForm(s, 4, sep) =>
                       out = HourOf(SubSeq(s, 1, 2)) \o <<":", s[3], s[4], " ">>
                             \o MeridiemOf(s)
            /\ \A h \in {1, 2} :
                   IsColonForm(s, h) =>
                       out = HourOf(SubSeq(s, 1, h)) \o SubSeq(s, h + 1, Len(s))

\* A four-digit run with a leading zero was normalised.
C25_Witness ==
    /\ Returned("normalize")
    /\ IsRunForm(RawTime, 4, <<" ">>)
    /\ RawTime[1] = "0"
    /\ Len(ruResult[1].value) = 7


\* The words of the cleaned, lower-cased transcript.
TimeWords == Split(Lower(CleanTranscript(ruText)))

\* Three or four digits, or one or two digits, a colon and two digits.
IsClockDigits(w) ==
    \/ Len(w) \in {3, 4} /\ \A i \in DOMAIN w : IsDigit(w[i])
    \/ \E h \in {1, 2} :
           /\ Len(w) = h + 3
           /\ \A i \in 1..h : IsDigit(w[i])
           /\ w[h + 1] = ":" /\ IsDigit(w[h + 2]) /\ IsDigit(w[h + 3])

\* The number of words (1 or 2) the time that starts at word i takes, 0 when
\* no time starts there: clock digits with am or pm attached or as next word.
TimeWordsAt(words, i) ==
    IF i > Len(words) THEN 0
    ELSE LET w == words[i] IN
         IF /\ Len(w) > 2 /\ SubSeq(w, Len(w) - 1, Len(w)) \in Meridiems
            /\ IsClockDigits(SubSeq(w, 1, Len(w) - 2)) THEN 1
         ELSE IF /\ IsClockDigits(w) /\ i < Len(words)
                 /\ words[i + 1] \in Meridiems THEN 2
         ELSE 0

\* The time that starts at word i, normalised.
TimeAtWord(words, i) ==
    NormalizeTimeSimple(Join(SubSeq(words, i, i + TimeWordsAt(words, i) - 1)))

\* \bkeyword\b at the end resp. the start of a word: the keyword is the word,
\* or a character that is no letter, digit or underscore sets it off.
EndsWithKeyword(w, keyword) ==
    /\ Len(w) >= Len(keyword)
    /\ SubSeq(w, Len(w) - Len(keyword) + 1, Len(w)) = keyword
    /\ Len(w) > Len(keyword) => ~IsWordChar(w[Len(w) - Len(keyword)])
StartsWithKeyword(w, keyword) ==
    /\ Len(w) >= Len(keyword)
    /\ SubSeq(w, 1, Len(keyword)) = keyword
    /\ Len(w) > Len(keyword) => ~IsWordChar(w[Len(keyword) + 1])

\* The words at which '<keyword> <time>' resp. '<time> <keyword>' starts.
KeywordThenTime(words, keyword) ==
    {i \in DOMAIN words :
        EndsWithKeyword(words[i], keyword) /\ TimeWordsAt(words, i + 1) > 0}
TimeThenKeyword(words, keyword) ==
    {i \in DOMAIN words :
        /\ TimeWordsAt(words, i) > 0
        /\ i + TimeWordsAt(words, i) <= Len(words)
        /\ StartsWithKeyword(words[i + TimeWordsAt(words, i)], keyword)}

\* What the claim says is returned for the keyword.
TimeByPrecedence(words, keyword) ==
    LET before == KeywordThenTime(words, keyword)
        behind == TimeThenKeyword(words, keyword)
    IN  IF before # {} THEN Some(TimeAtWord(words, SetMin(before) + 1))
        ELSE IF behind # {} THEN Some(TimeAtWord(words, SetMin(behind)))
        ELSE None

\* C29: the time returned for a keyword is that of the leftmost
\* '<keyword> <time>' occurrence when there is one, wherever a
\* '<time> <keyword>' occurrence stands; without one it is the time of the
\* leftmost '<time> <keyword>' occurrence, and None when neither form occurs.
C29_KeywordBeforeTimeFirst ==
    LET words == TimeWords IN
    /\ Returned("in") => ruResult[1].value = TimeByPrecedence(words, W_in)
    /\ Returned("out") => ruResult[1].value = TimeByPrecedence(words, W_out)

\* A '<time> in' occurrence stands before an 'in <time>' occurrence with
\* another time, and the later one was returned.
C29_Witness ==
    LET words == TimeWords
        before == KeywordThenTime(words, W_in)
        behind == TimeThenKeyword(words, W_in)
    IN  /\ Returned("in")
        /\ before # {} /\ behind # {}
        /\ SetMin(behind) < SetMin(before)
        /\ ruResult[1].value # Some(TimeAtWord(words, SetMin(behind)))

\* ------------------------------------------------- the training endpoints
\* start_training requests, stop_training requests, and output lines one
\* training subprocess writes.
MaxStarts == 2
MaxStops == 1
MaxLines == 1

\* What a start_training request carries: its method and whether its body is
\* JSON.
StartInputs ==
    { [method |-> "POST", json |-> TRUE],
      [method |-> "POST", json |-> FALSE],
      [method |-> "GET", json |-> TRUE] }

notTr == <<aggVars, exVars, alVars, wfVars, svVars, vlVars, fcVars, ccVars,
           dcVars, ruVars, clVars, mgVars>>

\* The module is loaded: views.py lines 41-43.
TrainingInit ==
    /\ AggIdle /\ ExtractIdle /\ AlignIdle
    /\ WorkflowIdle /\ SaversIdle /\ ValidateIdle /\ FactoryIdle /\ ConcurrentIdle
    /\ DecodeIdle /\ RulesIdle /\ CollectIdle /\ MergeIdle
    /\ trStatus = "idle"
    /\ trLogs = <<>>
    /\ trProcess = None
    /\ trProcs = <<>>
    /\ trStarted = 0
    /\ trThreads = <<>>
    /\ trReqs = <<>>

RequestsOf(kind) == {r \in DOMAIN trReqs : trReqs[r].kind = kind}

\* The server hands a start_training request to a worker thread.
StartArrives ==
    /\ Cardinality(RequestsOf("start")) < MaxStarts
    /\ \E input \in StartInputs :
           trReqs' = Append(trReqs, [kind |-> "start", method |-> input.method,
                                     json |-> input.json, pc |-> "check",
                                     response |-> "pending"])
    /\ UNCHANGED <<trStatus, trLogs, trProcess, trProcs, trStarted, trThreads, notTr>>

\* The server hands a stop_training request to a worker thread.
StopArrives ==
    /\ Cardinality(RequestsOf("stop")) < MaxStops
    /\ trReqs' = Append(trReqs, [kind |-> "stop", method |-> "POST", json |-> TRUE,
                                 pc |-> "check", response |-> "pending"])
    /\ UNCHANGED <<trStatus, trLogs, trProcess, trProcs, trStarted, trThreads, notTr>>

Respond(r, response) ==
    trReqs' = [trReqs EXCEPT ![r].pc = "done", ![r].response = response]

Goto(r, pc) == trReqs' = [trReqs EXCEPT ![r].pc = pc]

At(r, kind, pc) == r \in DOMAIN trReqs /\ trReqs[r].kind = kind /\ trReqs[r].pc = pc

\* start_training, lines 1531-1536: the method test and the test of
\* _training_status.
StartCheck(r) ==
    /\ At(r, "start", "check")
    /\ IF trReqs[r].method # "POST" THEN Respond(r, "405 POST required")
       ELSE IF trStatus = "running" THEN Respond(r, "400 Training already in progress")
       ELSE Goto(r, "reset")
    /\ UNCHANGED <<trStatus, trLogs, trProcess, trProcs, trStarted, trThreads, notTr>>

\* start_training, line 1538 and 1566-1567: the body is not JSON.
StartInvalidJson(r) ==
    /\ At(r, "start", "reset")
    /\ ~trReqs[r].json
    /\ Respond(r, "400 Invalid JSON")
    /\ UNCHANGED <<trStatus, trLogs, trProcess, trProcs, trStarted, trThreads, notTr>>

\* start_training, lines 1548-1564: the logs and the status are reset, the
\* background thread is started and the request answered.
StartReset(r) ==
    /\ At(r, "start", "reset")
    /\ trReqs[r].json
    /\ trLogs' = <<"Starting training...">>
    /\ trStatus' = "running"
    /\ trThreads' = Append(trThreads, [pc |-> "init", reading |-> 0, lines |-> 0])
    /\ Respond(r, "200 Training started")
    /\ UNCHANGED <<trProcess, trProcs, trStarted, notTr>>

\* stop_training, lines 1604-1606 and 1616-1617: the test of
\* _training_process and SIGTERM to the subprocess, which ends it.
StopCheck(r) ==
    /\ At(r, "stop", "check")
    /\ IF trProcess # None /\ trProcs[trProcess[1]] = "running"
       THEN /\ trProcs' = [trProcs EXCEPT ![trProcess[1]] = "terminated"]
            /\ Goto(r, "mark")
       ELSE /\ Respond(r, "400 No training process running")
            /\ UNCHANGED trProcs
    /\ UNCHANGED <<trStatus, trLogs, trProcess, trStarted, trThreads, notTr>>

\* stop_training, lines 1607-1615.
StopMark(r) ==
    /\ At(r, "stop", "mark")
    /\ trStatus' = "failed"
    /\ trLogs' = Append(trLogs, "Training stopped by user")
    /\ Respond(r, "200 Training stopped")
    /\ UNCHANGED <<trProcess, trProcs, trStarted, trThreads, notTr>>

ThreadAt(i, pc) == i \in DOMAIN trThreads /\ trThreads[i].pc = pc

ThreadGoto(i, pc) == trThreads' = [trThreads EXCEPT ![i].pc = pc]

\* _run_training_script, lines 1460-1461.
ThreadInit(i) ==
    /\ ThreadAt(i, "init")
    /\ trLogs' = <<>>
    /\ trStatus' = "running"
    /\ ThreadGoto(i, "popen")
    /\ UNCHANGED <<trProcess, trProcs, trStarted, trReqs, notTr>>

\* Line 1480: the subprocess is started and bound to _training_process.
ThreadPopen(i) ==
    /\ ThreadAt(i, "popen")
    /\ trStarted' = trStarted + 1
    /\ trProcs' = Append(trProcs, "running")
    /\ trProcess' = Some(trStarted + 1)
    /\ ThreadGoto(i, "stdout")
    /\ UNCHANGED <<trStatus, trLogs, trReqs, notTr>>

\* Line 1480: Popen raises (the interpreter or the directory is missing).
ThreadPopenRaises(i) ==
    /\ ThreadAt(i, "popen")
    /\ ThreadGoto(i, "except")
    /\ UNCHANGED <<trStatus, trLogs, trProcess, trProcs, trStarted, trReqs, notTr>>

\* Line 1490: _training_process.stdout is read once, from the global.
ThreadStdout(i) ==
    /\ ThreadAt(i, "stdout")
    /\ IF trProcess = None THEN ThreadGoto(i, "except")
       ELSE trThreads' = [trThreads EXCEPT ![i].pc = "read", ![i].reading = trProcess[1]]
    /\ UNCHANGED <<trStatus, trLogs, trProcess, trProcs, trStarted, trReqs, notTr>>

\* Lines 1490-1496: a line of the subprocess is appended to the logs.
ThreadLine(i) ==
    /\ ThreadAt(i, "read")
    /\ trThreads[i].lines < MaxLines
    /\ trProcs[trThreads[i].reading] = "running"
    /\ trLogs' = Append(trLogs, "Training: line")
    /\ trThreads' = [trThreads EXCEPT ![i].lines = @ + 1]
    /\ UNCHANGED <<trStatus, trProcess, trProcs, trStarted, trReqs, notTr>>

\* Line 1490: the pipe is at its end, the subprocess having ended.
ThreadEof(i) ==
    /\ ThreadAt(i, "read")
    /\ trProcs[trThreads[i].reading] # "running"
    /\ ThreadGoto(i, "wait")
    /\ UNCHANGED <<trStatus, trLogs, trProcess, trProcs, trStarted, trReqs, notTr>>

\* Lines 1499-1512: _training_process.wait(), on whatever the global holds
\* now, and the status and log entry for its return code.
ThreadWait(i) ==
    /\ ThreadAt(i, "wait")
    /\ IF trProcess = None
       THEN /\ ThreadGoto(i, "except")
            /\ UNCHANGED <<trStatus, trLogs>>
       ELSE /\ trProcs[trProcess[1]] # "running"
            /\ IF trProcs[trProcess[1]] = "exit 0"
               THEN /\ trStatus' = "completed"
                    /\ trLogs' = Append(trLogs, "Training completed successfully!")
               ELSE /\ trStatus' = "failed"
                    /\ trLogs' = Append(trLogs, "Training failed with code")
            /\ ThreadGoto(i, "finally")
    /\ UNCHANGED <<trProcess, trProcs, trStarted, trReqs, notTr>>

\* Lines 1514-1520: except Exception.
ThreadExcept(i) ==
    /\ ThreadAt(i, "except")
    /\ trStatus' = "failed"
    /\ trLogs' = Append(trLogs, "Error")
    /\ ThreadGoto(i, "finally")
    /\ UNCHANGED <<trProcess, trProcs, trStarted, trReqs, notTr>>

\* Lines 1521-1522: finally.
ThreadFinally(i) ==
    /\ ThreadAt(i, "finally")
    /\ trProcess' = None
    /\ ThreadGoto(i, "done")
    /\ UNCHANGED <<trStatus, trLogs, trProcs, trStarted, trReqs, notTr>>

\* The training script ends by itself, with return code 0 or 1.
ProcessExits(p) ==
    /\ p \in DOMAIN trProcs
    /\ trProcs[p] = "running"
    /\ \E code \in {"exit 0", "exit 1"} : trProcs' = [trProcs EXCEPT ![p] = code]
    /\ UNCHANGED <<trStatus, trLogs, trProcess, trStarted, trThreads, trReqs, notTr>>

TrainingNext ==
    \/ StartArrives
    \/ StopArrives
    \/ \E r \in 1..(MaxStarts + MaxStops) :
           \/ StartCheck(r)
           \/ StartInvalidJson(r)
           \/ StartReset(r)
           \/ StopCheck(r)
           \/ StopMark(r)
    \/ \E i \in 1..MaxStarts :
           \/ ThreadInit(i)
           \/ ThreadPopen(i)
           \/ ThreadPopenRaises(i)
           \/ ThreadStdout(i)
           \/ ThreadLine(i)
           \/ ThreadEof(i)
           \/ ThreadWait(i)
           \/ ThreadExcept(i)
           \/ ThreadFinally(i)
           \/ ProcessExits(i)

SpecTraining == TrainingInit /\ [][TrainingNext]_vars

\* The training subprocesses that are running.
Alive == {p \in DOMAIN trProcs : trProcs[p] = "running"}

\* The background threads that have not finished.
ActiveRuns == {i \in DOMAIN trThreads : trThreads[i].pc # "done"}

\* C27: at most one training run is active at any time: never two training
\* subprocesses running, never two background threads at work.
C27_AtMostOneRun == Cardinality(Alive) <= 1 /\ Cardinality(ActiveRuns) <= 1


\* ------------------------------------------- collect_corrections, step by step
\* Corrections typed before the command that ends the session.
MaxTyped == 2

ClTokens == <<<<"a", "b">>, <<"c", "d">>, <<"e">>>>

\* The tokens and the tags predicted for them, one tag per token.
CollectCalls ==
    { [tokens |-> SubSeq(ClTokens, 1, 2), predicted |-> <<TagO, TagO>>],
      [tokens |-> SubSeq(ClTokens, 1, 2), predicted |-> <<LabelMap[2], TagO>>],
      [tokens |-> ClTokens, predicted |-> <<TagO, LabelMap[2], LabelMap[3]>>] }

notCl == <<aggVars, exVars, alVars, wfVars, svVars, vlVars, fcVars, ccVars,
           dcVars, ruVars, trVars, mgVars>>

\* The working list is the predicted list itself, not a list of its own.
ListCopy_Alias(list) == [alias |-> TRUE, val |-> list]

\* predicted_tags.copy() (line 206): a list of its own with the same tags.
ListCopy(list) == [alias |-> FALSE, val |-> list]

\* The tags corrected_tags holds now.
Working == IF clCorrected[1].alias THEN clPredicted ELSE clCorrected[1].val

CollectInit ==
    /\ AggIdle /\ ExtractIdle /\ AlignIdle
    /\ WorkflowIdle /\ SaversIdle /\ ValidateIdle /\ FactoryIdle /\ ConcurrentIdle
    /\ DecodeIdle /\ RulesIdle /\ TrainingIdle /\ MergeIdle
    /\ \E call \in CollectCalls :
           /\ clTokens = call.tokens
           /\ clPredicted = call.predicted
           /\ clGiven = call.predicted
    /\ clCorrected = None
    /\ clAvailable = <<>>
    /\ clTyped = <<>>
    /\ clResult = None

\* Lines 206-214: the copy is taken and the available tags are loaded.
CollectBegins ==
    /\ clCorrected = None
    /\ clCorrected' = Some(ListCopy(clPredicted))
    /\ \E readable \in BOOLEAN : clAvailable' = LoadAvailableTags(readable)
    /\ UNCHANGED <<clTokens, clPredicted, clGiven, clTyped, clResult, notCl>>

Prompting == clCorrected # None /\ clResult = None

Reads(input, kinds) ==
    /\ Prompting
    /\ CommandKind(input, clTokens, clAvailable) \in kinds
    /\ clTyped' = Append(clTyped, input)

\* 'list' (lines 224-229): the tags are printed.
CollectList ==
    /\ Len(clTyped) < MaxTyped
    /\ \E input \in UserInputs : Reads(input, {"list"})
    /\ UNCHANGED <<clTokens, clPredicted, clGiven, clCorrected, clAvailable, clResult, notCl>>

\* A command that is refused (lines 233-246, 259-262): a message is printed.
CollectRefuses ==
    /\ Len(clTyped) < MaxTyped
    /\ \E input \in UserInputs : Reads(input, {"format", "range", "tag"})
    /\ UNCHANGED <<clTokens, clPredicted, clGiven, clCorrected, clAvailable, clResult, notCl>>

\* A correction (lines 248-257): corrected_tags[idx] = new_tag.
CollectAccepts ==
    /\ Len(clTyped) < MaxTyped
    /\ \E input \in UserInputs :
           /\ Reads(input, {"accept"})
           /\ IF clCorrected[1].alias
              THEN /\ clPredicted' = ApplyCorrection(input, clPredicted)
                   /\ UNCHANGED clCorrected
              ELSE /\ clCorrected' =
                          Some([clCorrected[1] EXCEPT
                                   !.val = ApplyCorrection(input, clCorrected[1].val)])
                   /\ UNCHANGED clPredicted
    /\ UNCHANGED <<clTokens, clGiven, clAvailable, clResult, notCl>>

\* 'done' (lines 219-220, 270): the working list is returned.
CollectDone ==
    /\ \E input \in UserInputs : Reads(input, {"done"})
    /\ clResult' = Some(Working)
    /\ UNCHANGED <<clTokens, clPredicted, clGiven, clCorrected, clAvailable, notCl>>

\* 'skip' (lines 221-223): the predicted list is returned.
CollectSkip ==
    /\ \E input \in UserInputs : Reads(input, {"skip"})
    /\ clResult' = Some(clPredicted)
    /\ UNCHANGED <<clTokens, clPredicted, clGiven, clCorrected, clAvailable, notCl>>

CollectNext ==
    \/ CollectBegins
    \/ CollectList
    \/ CollectRefuses
    \/ CollectAccepts
    \/ CollectDone
    \/ CollectSkip

SpecCollect == CollectInit /\ [][CollectNext]_vars

\* The correction an input asks for, when it is 'index:TAG' with an index
\* of a token and a tag of the vocabulary or 'O'; idx is -1 otherwise.
Asked(input) ==
    LET fits == {<<i, tag>> \in (0..(Len(clTokens) - 1)) \X (Range(clAvailable) \cup {TagO}) :
                    Strip(input) = <<Digits[i + 1]>> \o Colon \o tag}
    IN  IF fits = {} THEN [idx |-> 0 - 1, tag |-> <<>>]
        ELSE LET fit == CHOOSE f \in fits : TRUE IN [idx |-> fit[1], tag |-> fit[2]]

\* The predicted tags with the accepted corrections among the inputs applied
\* in order.
RECURSIVE Corrected(_, _)
Corrected(tgs, inputs) ==
    IF inputs = <<>> THEN tgs
    ELSE LET ask == Asked(Head(inputs)) IN
         Corrected(IF ask.idx >= 0 THEN [tgs EXCEPT ![ask.idx + 1] = ask.tag] ELSE tgs,
                   Tail(inputs))

LastTyped == Lower(Strip(clTyped[Len(clTyped)]))

\* C28: while commands are read the working list is the predicted tags with
\* exactly the accepted corrections applied in order, so a refused command
\* changes nothing; a session ended with 'done' returns that list, one ended
\* with 'skip' returns the predicted tags as they were passed; the predicted
\* list is never changed.
C28_OnlyAcceptedCorrections ==
    /\ clPredicted = clGiven
    /\ clCorrected # None => Working = Corrected(clGiven, clTyped)
    /\ clResult # None /\ LastTyped = W_done => clResult[1] = Corrected(clGiven, clTyped)
    /\ clResult # None /\ LastTyped = W_skip => clResult[1] = clGiven

\* A session in which a correction changed a tag and 'skip' returned the
\* predicted tags as they were passed.
C28_Witness ==
    /\ clResult # None
    /\ LastTyped = W_skip
    /\ Corrected(clGiven, clTyped) # clGiven
    /\ clResult[1] = clGiven


\* ------------------------------------- CorrectionManager.merge_corrections
\* Lines in train.jsonl and in the corrections file.
MaxMergeLines == 2

\* The lines the two files may hold: two records with the same tokens and
\* different tags, a record whose one token is the space-joined text of
\* theirs, a record with other tokens, and a line that does not parse.
MergeLines ==
    { [ok |-> TRUE, tokens |-> <<<<"a", "b">>, <<"c", "d">>>>, tags |-> <<TagO, TagO>>],
      [ok |-> TRUE, tokens |-> <<<<"a", "b">>, <<"c", "d">>>>, tags |-> <<LabelMap[2], LabelMap[3]>>],
      [ok |-> TRUE, tokens |-> <<<<"a", "b", " ", "c", "d">>>>, tags |-> <<LabelMap[2]>>],
      [ok |-> TRUE, tokens |-> <<<<"e", "f">>>>, tags |-> <<TagO>>],
      [ok |-> FALSE, tokens |-> <<>>, tags |-> <<>>] }

\* A file: None when it does not exist, else Some(its lines).
MergeFiles == {None} \cup {Some(lines) : lines \in UNION {[1..n -> MergeLines] : n \in 0..MaxMergeLines}}

\* get_record_signature: ' '.join(record.get('tokens', []))
GetRecordSignature(record) == Join(record.tokens)

\* A record whose signature was seen replaces the record kept for it.
DedupStep_KeepLast(acc, record) ==
    LET sig == GetRecordSignature(record) IN
    IF sig \notin acc.seen
    THEN [seen |-> acc.seen \cup {sig}, kept |-> Append(acc.kept, record)]
    ELSE [seen |-> acc.seen,
          kept |-> [i \in DOMAIN acc.kept |->
                       IF GetRecordSignature(acc.kept[i]) = sig THEN record ELSE acc.kept[i]]]

\* One pass of the loop of _deduplicate_records (lines 155-159) over `seen`
\* and `deduplicated`.
DedupStep(acc, record) ==
    LET sig == GetRecordSignature(record) IN
    IF sig \notin acc.seen
    THEN [seen |-> acc.seen \cup {sig}, kept |-> Append(acc.kept, record)]
    ELSE acc

\* _deduplicate_records(records)
RECURSIVE DedupFrom(_, _)
DedupFrom(acc, records) ==
    IF records = <<>> THEN acc.kept ELSE DedupFrom(DedupStep(acc, Head(records)), Tail(records))
DeduplicateRecords(records) == DedupFrom([seen |-> {}, kept |-> <<>>], records)

\* What load_jsonl_file returns for a file that exists.
RecordsOf(file) == IF file = None THEN <<>> ELSE LoadJsonlFile(file[1])

notMg == <<aggVars, exVars, alVars, wfVars, svVars, vlVars, fcVars, ccVars,
           dcVars, ruVars, trVars, clVars>>

\* merge_corrections(deduplicate=True) is called on the two files.
MergeInit ==
    /\ AggIdle /\ ExtractIdle /\ AlignIdle
    /\ WorkflowIdle /\ SaversIdle /\ ValidateIdle /\ FactoryIdle /\ ConcurrentIdle
    /\ DecodeIdle /\ RulesIdle /\ TrainingIdle /\ CollectIdle
    /\ mgTrain \in MergeFiles
    /\ mgCorrections \in MergeFiles
    /\ mgMerged = <<>>
    /\ mgSeen = {}
    /\ mgKept = <<>>
    /\ mgOutput = None
    /\ mgPc = "start"

\* Lines 113-115: the corrections file does not exist.
MergeNoCorrectionFile ==
    /\ mgPc = "start"
    /\ mgCorrections = None
    /\ mgPc' = "False"
    /\ UNCHANGED <<mgTrain, mgCorrections, mgMerged, mgSeen, mgKept, mgOutput, notMg>>

\* Lines 117-120: no record could be loaded from it.
MergeNoCorrections ==
    /\ mgPc = "start"
    /\ mgCorrections # None
    /\ RecordsOf(mgCorrections) = <<>>
    /\ mgPc' = "False"
    /\ UNCHANGED <<mgTrain, mgCorrections, mgMerged, mgSeen, mgKept, mgOutput, notMg>>

\* Lines 117-131 and 152-153: both files are loaded and concatenated, the
\* deduplication starts.
MergeLoad ==
    /\ mgPc = "start"
    /\ mgCorrections # None
    /\ RecordsOf(mgCorrections) # <<>>
    /\ mgMerged' = RecordsOf(mgTrain) \o RecordsOf(mgCorrections)
    /\ mgSeen' = {}
    /\ mgKept' = <<>>
    /\ mgPc' = "dedup"
    /\ UNCHANGED <<mgTrain, mgCorrections, mgOutput, notMg>>

Visit ==
    LET acc == DedupStep([seen |-> mgSeen, kept |-> mgKept], Head(mgMerged)) IN
    /\ mgSeen' = acc.seen
    /\ mgKept' = acc.kept
    /\ mgMerged' = Tail(mgMerged)
    /\ UNCHANGED <<mgTrain, mgCorrections, mgOutput, mgPc, notMg>>

\* Lines 155-159: a record with a signature not seen yet is kept.
DedupKeep ==
    /\ mgPc = "dedup"
    /\ mgMerged # <<>>
    /\ GetRecordSignature(Head(mgMerged)) \notin mgSeen
    /\ Visit

\* Lines 155-157: a record with a signature seen before is passed over.
DedupSkip ==
    /\ mgPc = "dedup"
    /\ mgMerged # <<>>
    /\ GetRecordSignature(Head(mgMerged)) \in mgSeen
    /\ Visit

\* Lines 161-162: the loop is over.
DedupReturn ==
    /\ mgPc = "dedup"
    /\ mgMerged = <<>>
    /\ mgPc' = "save"
    /\ UNCHANGED <<mgTrain, mgCorrections, mgMerged, mgSeen, mgKept, mgOutput, notMg>>

\* Lines 134-140 and 68-75: the output file is written.
MergeSaves ==
    /\ mgPc = "save"
    /\ mgOutput' = Some(mgKept)
    /\ mgPc' = "True"
    /\ UNCHANGED <<mgTrain, mgCorrections, mgMerged, mgSeen, mgKept, notMg>>

\* Lines 77-79: writing fails; what the file then holds is left open.
MergeSaveFails ==
    /\ mgPc = "save"
    /\ mgPc' = "False"
    /\ UNCHANGED <<mgTrain, mgCorrections, mgMerged, mgSeen, mgKept, mgOutput, notMg>>

MergeNext ==
    \/ MergeNoCorrectionFile
    \/ MergeNoCorrections
    \/ MergeLoad
    \/ DedupKeep
    \/ DedupSkip
    \/ DedupReturn
    \/ MergeSaves
    \/ MergeSaveFails

SpecMerge == MergeInit /\ [][MergeNext]_vars

\* The records of train.jsonl followed by the corrections.
AllRecords == RecordsOf(mgTrain) \o RecordsOf(mgCorrections)

\* The places in a list where a signature occurs for the first time.
FirstPlaces(records) ==
    {i \in DOMAIN records :
        \A j \in 1..(i - 1) : GetRecordSignature(records[j]) # GetRecordSignature(records[i])}

\* out holds exactly the records at the first places of records, in order.
IsFirstOccurrences(out, records) ==
    /\ Len(out) = Cardinality(FirstPlaces(records))
    /\ \E place \in [DOMAIN out -> FirstPlaces(records)] :
           /\ \A i, j \in DOMAIN out : i < j => place[i] < place[j]
           /\ \A i \in DOMAIN out : out[i] = records[place[i]]

\* A record of train.jsonl has the signature, and the first such record.
InTrain(sig) == \E i \in DOMAIN RecordsOf(mgTrain) : GetRecordSignature(RecordsOf(mgTrain)[i]) = sig
FirstInTrain(sig) ==
    RecordsOf(mgTrain)[SetMin({i \in DOMAIN RecordsOf(mgTrain) :
                                  GetRecordSignature(RecordsOf(mgTrain)[i]) = sig})]

\* C30: the merged output holds at most one record per space-joined token
\* sequence, the records being the first occurrences in train.jsonl followed
\* by the corrections and in that order; for a token sequence of train.jsonl
\* the record kept is the one of train.jsonl; deduplicating the output again
\* changes nothing.
C30_FirstOccurrenceKept ==
    mgPc = "True" =>
        LET out == mgOutput[1] IN
        /\ \A i, j \in DOMAIN out :
               GetRecordSignature(out[i]) = GetRecordSignature(out[j]) => i = j
        /\ IsFirstOccurrences(out, AllRecords)
        /\ \A i \in DOMAIN out :
               InTrain(GetRecordSignature(out[i])) =>
                   out[i] = FirstInTrain(GetRecordSignature(out[i]))
        /\ DeduplicateRecords(out) = out

\* A correction with the token sequence of a train.jsonl record and other
\* tags was merged, and the output holds the train.jsonl record.
C30_Witness ==
    /\ mgPc = "True"
    /\ \E c \in DOMAIN RecordsOf(mgCorrections) :
           LET correction == RecordsOf(mgCorrections)[c] IN
           /\ InTrain(GetRecordSignature(correction))
           /\ FirstInTrain(GetRecordSignature(correction)) # correction
           /\ \E i \in DOMAIN mgOutput[1] :
                  mgOutput[1][i] = FirstInTrain(GetRecordSignature(correction))
           /\ \A i \in DOMAIN mgOutput[1] : mgOutput[1][i] # correction

====
